---- MODULE Spec2Model ----
(***************************************************************************)
(* The diagram-publish pipeline of the OneNote MCP server                  *)
(* (src/onenote/src/index.ts): OneNoteService.saveDiagram and              *)
(* OneNoteService.generateJpegFromMermaid, with the Graph store, the       *)
(* puppeteer sandbox and the clock as their environment.                   *)
(*                                                                         *)
(* Strings that reach the wire are sequences of byte values (ASCII codes), *)
(* so that the multipart body is built and parsed byte for byte.  Error    *)
(* messages, which never reach the wire, are TLA+ strings.                 *)
(***************************************************************************)
EXTENDS Integers, Sequences, FiniteSets, TLC

(***************************************************************************)
(* Bounds of the model.                                                    *)
(***************************************************************************)
\* Number of saveDiagram calls (publishes) that may run, concurrently or
\* one after the other.
NumPublish == 2

\* The clock advances in steps of one millisecond for at most MaxJitter
\* steps after each multiple of the settle delay, and by a whole delay
\* otherwise, up to MaxEpochs delays.
MaxJitter == 1

MaxEpochs == 1

(***************************************************************************)
(* Program constants.                                                      *)
(***************************************************************************)
\* setTimeout(resolve, 5000) between page creation and the PATCH.
SettleDelay == 5000

\* page.waitForFunction(..., { timeout: 5000 }).
RenderTimeout == 5000

(***************************************************************************)
(* Byte strings.                                                           *)
(***************************************************************************)
CRLF == <<13, 10>>

\* "--"
Dashes == <<45, 45>>

\* 'PartBoundary'
PartBoundaryPrefix ==
  <<
    80, 97, 114, 116, 66, 111, 117, 110, 100, 97, 114, 121
  >>

\* 'Content-Disposition: form-data; name="Commands"\r\n'
CommandsDisposition ==
  <<
    67, 111, 110, 116, 101, 110, 116, 45, 68, 105, 115, 112, 111, 115,
    105, 116, 105, 111, 110, 58, 32, 102, 111, 114, 109, 45, 100, 97,
    116, 97, 59, 32, 110, 97, 109, 101, 61, 34, 67, 111, 109, 109, 97,
    110, 100, 115, 34, 13, 10
  >>

\* 'Content-Type: application/json\r\n'
JsonContentType ==
  <<
    67, 111, 110, 116, 101, 110, 116, 45, 84, 121, 112, 101, 58, 32, 97,
    112, 112, 108, 105, 99, 97, 116, 105, 111, 110, 47, 106, 115, 111,
    110, 13, 10
  >>

\* '[{"target":"body","action":"append","content":"'
JsonHead ==
  <<
    91, 123, 34, 116, 97, 114, 103, 101, 116, 34, 58, 34, 98, 111, 100,
    121, 34, 44, 34, 97, 99, 116, 105, 111, 110, 34, 58, 34, 97, 112,
    112, 101, 110, 100, 34, 44, 34, 99, 111, 110, 116, 101, 110, 116,
    34, 58, 34
  >>

\* '"}]'
JsonTail ==
  <<
    34, 125, 93
  >>

\* '<img src="name:diagramImage" alt="'
ImgTagHead ==
  <<
    60, 105, 109, 103, 32, 115, 114, 99, 61, 34, 110, 97, 109, 101, 58,
    100, 105, 97, 103, 114, 97, 109, 73, 109, 97, 103, 101, 34, 32, 97,
    108, 116, 61, 34
  >>

\* '" data-src-type="image/jpeg"/>'
ImgTagTail ==
  <<
    34, 32, 100, 97, 116, 97, 45, 115, 114, 99, 45, 116, 121, 112, 101,
    61, 34, 105, 109, 97, 103, 101, 47, 106, 112, 101, 103, 34, 47, 62
  >>

\* 'Content-Disposition: form-data; name="diagramImage"\r\n'
ImageDisposition ==
  <<
    67, 111, 110, 116, 101, 110, 116, 45, 68, 105, 115, 112, 111, 115,
    105, 116, 105, 111, 110, 58, 32, 102, 111, 114, 109, 45, 100, 97,
    116, 97, 59, 32, 110, 97, 109, 101, 61, 34, 100, 105, 97, 103, 114,
    97, 109, 73, 109, 97, 103, 101, 34, 13, 10
  >>

\* 'Content-Type: image/jpeg\r\n'
JpegContentType ==
  <<
    67, 111, 110, 116, 101, 110, 116, 45, 84, 121, 112, 101, 58, 32,
    105, 109, 97, 103, 101, 47, 106, 112, 101, 103, 13, 10
  >>

\* 'Content-Transfer-Encoding: binary\r\n'
BinaryEncoding ==
  <<
    67, 111, 110, 116, 101, 110, 116, 45, 84, 114, 97, 110, 115, 102,
    101, 114, 45, 69, 110, 99, 111, 100, 105, 110, 103, 58, 32, 98, 105,
    110, 97, 114, 121, 13, 10
  >>

\* 'multipart/form-data; boundary='
MultipartPrefix ==
  <<
    109, 117, 108, 116, 105, 112, 97, 114, 116, 47, 102, 111, 114, 109,
    45, 100, 97, 116, 97, 59, 32, 98, 111, 117, 110, 100, 97, 114, 121,
    61
  >>

\* 'Content-Disposition: form-data; name="'
DispositionName ==
  <<
    67, 111, 110, 116, 101, 110, 116, 45, 68, 105, 115, 112, 111, 115,
    105, 116, 105, 111, 110, 58, 32, 102, 111, 114, 109, 45, 100, 97,
    116, 97, 59, 32, 110, 97, 109, 101, 61, 34
  >>

\* 'Commands'
NameCommands ==
  <<
    67, 111, 109, 109, 97, 110, 100, 115
  >>

\* 'diagramImage'
NameDiagramImage ==
  <<
    100, 105, 97, 103, 114, 97, 109, 73, 109, 97, 103, 101
  >>

\* 'Flow'
TitleFlow ==
  <<
    70, 108, 111, 119
  >>

\* 'application/xhtml+xml'
XhtmlContentType ==
  <<
    97, 112, 112, 108, 105, 99, 97, 116, 105, 111, 110, 47, 120, 104,
    116, 109, 108, 43, 120, 109, 108
  >>

\* '# '
TextHead ==
  <<
    35, 32
  >>

\* '\n          '
TextIndent ==
  <<
    10, 32, 32, 32, 32, 32, 32, 32, 32, 32, 32
  >>

\* '\n\n          ## Diagram Source (Mermaid)\n          ```\n          '
TextSourceHead ==
  <<
    10, 10, 32, 32, 32, 32, 32, 32, 32, 32, 32, 32, 35, 35, 32, 68, 105,
    97, 103, 114, 97, 109, 32, 83, 111, 117, 114, 99, 101, 32, 40, 77,
    101, 114, 109, 97, 105, 100, 41, 10, 32, 32, 32, 32, 32, 32, 32, 32,
    32, 32, 96, 96, 96, 10, 32, 32, 32, 32, 32, 32, 32, 32, 32, 32
  >>

\* '\n          ```\n          '
TextSourceTail ==
  <<
    10, 32, 32, 32, 32, 32, 32, 32, 32, 32, 32, 96, 96, 96, 10, 32, 32,
    32, 32, 32, 32, 32, 32, 32, 32
  >>

\* '<!DOCTYPE html><html><head><title>'
HtmlHead ==
  <<
    60, 33, 68, 79, 67, 84, 89, 80, 69, 32, 104, 116, 109, 108, 62, 60,
    104, 116, 109, 108, 62, 60, 104, 101, 97, 100, 62, 60, 116, 105,
    116, 108, 101, 62
  >>

\* '</title></head><body><div>'
HtmlMiddle ==
  <<
    60, 47, 116, 105, 116, 108, 101, 62, 60, 47, 104, 101, 97, 100, 62,
    60, 98, 111, 100, 121, 62, 60, 100, 105, 118, 62
  >>

\* '</div></body></html>'
HtmlTail ==
  <<
    60, 47, 100, 105, 118, 62, 60, 47, 98, 111, 100, 121, 62, 60, 47,
    104, 116, 109, 108, 62
  >>

\* 'graph TD; A-->B'
MarkupFlow ==
  <<
    103, 114, 97, 112, 104, 32, 84, 68, 59, 32, 65, 45, 45, 62, 66
  >>

\* 'graph LR; X-->Y'
MarkupPair ==
  <<
    103, 114, 97, 112, 104, 32, 76, 82, 59, 32, 88, 45, 45, 62, 89
  >>

\* 'two nodes'
DescriptionPair ==
  <<
    116, 119, 111, 32, 110, 111, 100, 101, 115
  >>

(***************************************************************************)
(* Sequence helpers.                                                       *)
(***************************************************************************)
Min(S) == CHOOSE x \in S : \A y \in S : x <= y

\* Whether needle occurs in hay at position i.
OccursAt(hay, needle, i) ==
  /\ i >= 1
  /\ i + Len(needle) - 1 <= Len(hay)
  /\ needle # <<>> => hay[i] = needle[1]
  /\ SubSeq(hay, i, i + Len(needle) - 1) = needle

\* The first position >= from at which needle occurs in hay, or 0.
IndexOf(hay, needle, from) ==
  LET hits == {i \in from..(Len(hay) - Len(needle) + 1) : OccursAt(hay, needle, i)}
  IN  IF hits = {} THEN 0 ELSE Min(hits)

Occurs(hay, needle) == IndexOf(hay, needle, 1) # 0

StartsWith(hay, needle) == OccursAt(hay, needle, 1)

EndsWith(hay, needle) == OccursAt(hay, needle, Len(hay) - Len(needle) + 1)

RECURSIVE Digits(_)
\* Number to decimal string, as a template literal formats Date.now().
Digits(n) ==
  IF n < 10 THEN <<48 + n>> ELSE Digits(n \div 10) \o <<48 + (n % 10)>>

\* One lower-case hexadecimal digit.
HexDigit(d) == IF d < 10 THEN 48 + d ELSE 87 + d

\* JSON.stringify's escape of one character of a string.
JsonEscapeChar(c) ==
  CASE c = 34 -> <<92, 34>>
    [] c = 92 -> <<92, 92>>
    [] c = 8  -> <<92, 98>>
    [] c = 9  -> <<92, 116>>
    [] c = 10 -> <<92, 110>>
    [] c = 12 -> <<92, 102>>
    [] c = 13 -> <<92, 114>>
    [] c < 32 /\ c \notin {8, 9, 10, 12, 13} ->
         <<92, 117, 48, 48, HexDigit(c \div 16), HexDigit(c % 16)>>
    [] OTHER -> <<c>>

\* JSON.stringify's escape of a string, without the quotes around it: the
\* escapes of its characters, one after the other.
JsonEscaped[s \in Seq(0..255)] ==
  IF s = <<>> THEN <<>>
  ELSE JsonEscaped[SubSeq(s, 1, Len(s) - 1)] \o JsonEscapeChar(s[Len(s)])

JsonEscape(s) == JsonEscaped[s]

(***************************************************************************)
(* The multipart body of saveDiagram.                                      *)
(***************************************************************************)
\* const boundary = `PartBoundary${Date.now()}`
Boundary(time) == PartBoundaryPrefix \o Digits(time)

\* `<img src="name:diagramImage" alt="${title}" data-src-type="image/jpeg"/>`
ImgTag(title) == ImgTagHead \o title \o ImgTagTail

\* JSON.stringify([{ target: "body", action: "append", content: ... }])
CommandsJson(title) == JsonHead \o JsonEscape(ImgTag(title)) \o JsonTail

\* A variant of CommandsPart that leaves out the line end after the JSON
\* text.
CommandsPartUnterminated(boundary, title) ==
  Dashes \o boundary \o CRLF
    \o CommandsDisposition
    \o JsonContentType
    \o CRLF
    \o CommandsJson(title)

CommandsPart(boundary, title) ==
  Dashes \o boundary \o CRLF
    \o CommandsDisposition
    \o JsonContentType
    \o CRLF
    \o CommandsJson(title)
    \o CRLF

ImagePart(boundary) ==
  Dashes \o boundary \o CRLF
    \o ImageDisposition
    \o JpegContentType
    \o BinaryEncoding
    \o CRLF

\* A variant of ClosingBoundary whose token leaves the clock reading out.
ClosingBoundaryStale(boundary) ==
  CRLF \o Dashes \o PartBoundaryPrefix \o Dashes \o CRLF

ClosingBoundary(boundary) == CRLF \o Dashes \o boundary \o Dashes \o CRLF

MultipartBuffer(boundary, title, jpegBuffer) ==
  CommandsPart(boundary, title)
    \o ImagePart(boundary)
    \o jpegBuffer
    \o ClosingBoundary(boundary)

\* .header("Content-Type", `multipart/form-data; boundary=${boundary}`)
ContentTypeHeader(boundary) == MultipartPrefix \o boundary

(***************************************************************************)
(* The store's side: a multipart parser after RFC 2046.  The delimiter is  *)
(* CRLF "--" boundary; a delimiter line ends in CRLF (a part follows) or   *)
(* in "--" (the close delimiter).  A part is its header block, a blank     *)
(* line, and its content up to the next delimiter line.                    *)
(***************************************************************************)
\* The boundary parameter of a Content-Type header.
BoundaryOf(contentType) ==
  IF StartsWith(contentType, MultipartPrefix)
    THEN SubSeq(contentType, Len(MultipartPrefix) + 1, Len(contentType))
    ELSE <<>>

Delimiter(boundary) == CRLF \o Dashes \o boundary

RECURSIVE NextDelimiterLine(_, _, _)
\* The first position >= from of a delimiter line in text, or 0.
NextDelimiterLine(text, delim, from) ==
  LET i == IndexOf(text, delim, from)
      after == i + Len(delim)
  IN  IF i = 0 THEN 0
      ELSE IF OccursAt(text, CRLF, after) \/ OccursAt(text, Dashes, after)
        THEN i
        ELSE NextDelimiterLine(text, delim, i + 1)

\* The name parameter of a part's Content-Disposition header, or <<>>.
PartName(headers) ==
  LET i == IndexOf(headers, DispositionName, 1)
      start == i + Len(DispositionName)
      close == IndexOf(headers, <<34>>, start)
  IN  IF i = 0 \/ close = 0 THEN <<>> ELSE SubSeq(headers, start, close - 1)

\* One part, from the text between two delimiter lines.
ParsePart(raw) ==
  LET blank == IndexOf(CRLF \o raw, CRLF \o CRLF, 1)
  IN  IF blank = 0
        THEN [name |-> <<>>, content |-> raw, wellFormed |-> FALSE]
        ELSE [name |-> PartName(SubSeq(raw, 1, blank - 1)),
              content |-> SubSeq(raw, blank + 2, Len(raw)),
              wellFormed |-> TRUE]

RECURSIVE ParseParts(_, _, _)
\* The parts of text from the delimiter line at position at onwards.
ParseParts(text, delim, at) ==
  LET after == at + Len(delim)
      next == NextDelimiterLine(text, delim, after)
  IN  IF OccursAt(text, Dashes, after) THEN <<>>
      ELSE IF next = 0
        THEN <<[name |-> <<>>, content |-> <<>>, wellFormed |-> FALSE]>>
        ELSE <<ParsePart(SubSeq(text, after + 2, next - 1))>>
               \o ParseParts(text, delim, next)

\* The parts of a multipart body under the declared boundary.  The first
\* delimiter may stand at the very start of the body, without its CRLF.
ParseMultipart(body, boundary) ==
  LET text == CRLF \o body
      delim == Delimiter(boundary)
      first == NextDelimiterLine(text, delim, 1)
  IN  IF first = 0 THEN <<>> ELSE ParseParts(text, delim, first)

(***************************************************************************)
(* Inputs and environment values.                                          *)
(***************************************************************************)
Pubs == 1..NumPublish

\* A title that tries to smuggle a delimiter line and JSON metacharacters
\* into the Commands part: "\r\n--PartBoundary5000\r\n\
TitleTricky ==
  <<34>> \o CRLF \o Dashes \o Boundary(SettleDelay) \o CRLF \o <<92>>

\* saveDiagram(sectionId, title, content, description = "")
Requests ==
  { [sectionId |-> "sec-1", title |-> TitleFlow,
     content |-> MarkupFlow, description |-> <<>>],
    [sectionId |-> "sec-2", title |-> TitleTricky,
     content |-> MarkupPair, description |-> DescriptionPair] }

NoRequest ==
  [sectionId |-> "", title |-> <<>>, content |-> <<>>, description |-> <<>>]

\* What element.screenshot({ type: "jpeg", quality: 80 }) may return: a
\* buffer between the JPEG markers FF D8 and FF D9.  The second one holds,
\* in its entropy-coded data, the bytes of a delimiter line for the
\* boundary of clock reading SettleDelay.
JpegPlain == <<255, 216, 1, 2, 255, 217>>

JpegColliding ==
  <<255, 216>> \o Delimiter(Boundary(SettleDelay)) \o CRLF \o CRLF
    \o <<3, 255, 217>>

JpegBuffers == {JpegPlain, JpegColliding}

\* Messages of the errors the collaborators throw.
ImportError == "Cannot find package 'puppeteer'"

LaunchError == "Failed to launch the browser process!"

NewPageError == "Protocol error (Target.createTarget): Target closed"

SetContentError == "Navigation timeout of 30000 ms exceeded"

WaitTimeoutError == "Waiting failed: 5000ms exceeded"

ScreenshotError == "Node is either not visible or not an HTMLElement"

CloseError == "Protocol error (Browser.close): Target closed"

\* Messages of the errors of the Graph client, for POST and PATCH alike.
GraphErrors == {"Service unavailable"}

(***************************************************************************)
(* State.                                                                  *)
(***************************************************************************)
VARIABLES
  now,              \* Date.now(), in milliseconds since the process started
  pc,               \* where each saveDiagram call stands
  request,          \* the arguments of each saveDiagram call
  startedAt,        \* the clock reading at which each call was issued
  retryOf,          \* the earlier call whose request, after that call's
                    \* patch had failed, this call repeats, or 0
  browser,          \* generateJpegFromMermaid's browser: null, open, closed
  closeCalls,       \* how often browser.close() was called in each call
  waitUntil,        \* when the pending waitForFunction times out, or 0
  outcome,          \* what generateJpegFromMermaid returns or throws
  newPage,          \* the response of the POST: the created page
  settleAt,         \* when the pending settle timer is due, or 0
  boundary,         \* const boundary
  multipartBuffer,  \* const multipartBuffer
  calls,            \* the store requests each call has sent, in order
  pages,            \* the store: the pages of the section, in creation order
  result,           \* what each saveDiagram call returned or threw
  logWritable,      \* whether fs.appendFileSync to logs.txt succeeds
  logFile,          \* the entries each call has appended to logs.txt
  logErrors,        \* how often appendToLog's catch ran in each call
  tokenCache,       \* the number of accounts in the MSAL token cache
  initPc,           \* where initialize stands
  acquisitions,     \* the token acquisitions initialize has tried, in order
  authResult,       \* authResult of initialize: none, token or null
  client,           \* this.client: null or set
  initError,        \* the message of the error initialize threw, or ""
  directory,        \* the store: the notebooks and their sections
  toolPc,           \* where the handler of each tool call stands
  toolRequest,      \* the name and arguments of each tool call
  toolCalls,        \* the service methods each handler has called, in order
  response          \* what each handler returned or threw

\* The log of the calls.
logVars == <<logFile, logErrors>>

\* What initialize and the tool handler keep, and the environment they read.
serverVars ==
  <<logWritable, tokenCache, initPc, acquisitions, authResult, client,
    initError, directory, toolPc, toolRequest, toolCalls, response>>

vars ==
  <<now, pc, request, startedAt, retryOf, browser, closeCalls, waitUntil, outcome,
    newPage, settleAt, boundary, multipartBuffer, calls, pages, result,
    logVars, serverVars>>

NoOutcome == [kind |-> "none", bytes |-> <<>>, message |-> ""]

Returned(bytes) == [kind |-> "value", bytes |-> bytes, message |-> ""]

\* generateJpegFromMermaid's catch: throw new Error(`Failed to convert
\* Mermaid diagram to JPEG: ${error.message}`)
ConvertError(message) ==
  [kind |-> "error", bytes |-> <<>>,
   message |-> "Failed to convert Mermaid diagram to JPEG: " \o message]

\* An error that leaves generateJpegFromMermaid as it was thrown.
RawError(message) == [kind |-> "error", bytes |-> <<>>, message |-> message]

NoPage == [id |-> 0, title |-> <<>>]

NoResult == [status |-> "none", id |-> 0, title |-> <<>>, message |-> ""]

\* return newPage
Success(page) ==
  [status |-> "ok", id |-> page.id, title |-> page.title, message |-> ""]

\* saveDiagram's catch: throw new Error(`Failed to save diagram:
\* ${error.message}`)
Failure(message) ==
  [status |-> "error", id |-> 0, title |-> <<>>,
   message |-> "Failed to save diagram: " \o message]

\* A variant of TextContent that leaves the diagram source out of the page.
TextContentWithoutSource(req) ==
  TextHead \o req.title \o TextIndent \o req.description \o TextSourceHead
    \o TextSourceTail

\* const textContent = `# ${title} ... ${content} ...`
TextContent(req) ==
  TextHead \o req.title \o TextIndent \o req.description \o TextSourceHead
    \o req.content \o TextSourceTail

\* `<!DOCTYPE html><html><head><title>${title}</title></head><body><div>
\* ${textContent}</div></body></html>`
PageHtml(req) ==
  HtmlHead \o req.title \o HtmlMiddle \o TextContent(req) \o HtmlTail

\* A request to the store: client.api(url).header("Content-Type", ...)
\* .post(body) or .patch(body), and whether the store accepted it.
PostCall(req, ok) ==
  [method |-> "POST", section |-> req.sectionId, page |-> 0,
   contentType |-> XhtmlContentType, html |-> PageHtml(req),
   body |-> <<>>, ok |-> ok]

PatchCall(pageId, contentType, body, ok) ==
  [method |-> "PATCH", section |-> "", page |-> pageId,
   contentType |-> contentType, html |-> <<>>, body |-> body, ok |-> ok]

\* The requests of one method a call has sent.
CallsOf(p, method) ==
  SelectSeq(calls[p], LAMBDA call : call.method = method)

Last(seq) == seq[Len(seq)]

\* The call ended because the store rejected its PATCH.
PatchFailed(p) ==
  /\ pc[p] = "failed"
  /\ calls[p] # <<>>
  /\ Last(calls[p]).method = "PATCH"
  /\ ~Last(calls[p]).ok

(***************************************************************************)
(* The log, the token and the store's notebooks.                           *)
(***************************************************************************)
\* appendToLog(message), called without await, once for each message, a
\* message being given by the words its template begins with:
\* fs.appendFileSync adds the entry, or throws into the catch block, which
\* reports on the console and returns.
AppendToLog(p, messages) ==
  IF logWritable
    THEN /\ logFile' = [logFile EXCEPT ![p] = @ \o messages]
         /\ UNCHANGED logErrors
    ELSE /\ logErrors' = [logErrors EXCEPT ![p] = @ + Len(messages)]
         /\ UNCHANGED logFile

\* authProvider: done(new Error("Failed to acquire token"), null)
NoTokenError == "Failed to acquire token"

\* authProvider: if (authResult)
TokenAcquired == authResult = "token"

\* The messages of the errors a request of the Graph client may throw.
ClientErrors == IF TokenAcquired THEN GraphErrors ELSE {NoTokenError}

\* 'Work'
NameWork == <<87, 111, 114, 107>>

\* 'work'
NameWorkLower == <<119, 111, 114, 107>>

\* 'Home'
NameHome == <<72, 111, 109, 101>>

\* 'Diagrams'
NameDiagrams == <<68, 105, 97, 103, 114, 97, 109, 115>>

\* 'Notes'
NameNotes == <<78, 111, 116, 101, 115>>

\* The notebooks of the account and their sections, as
\* GET /me/onenote/notebooks and GET /me/onenote/notebooks/{id}/sections
\* list them.
Notebooks ==
  << [id |-> "nb-1", displayName |-> NameWork,
      sections |-> << [id |-> "sec-1", displayName |-> NameDiagrams],
                      [id |-> "sec-2", displayName |-> NameNotes] >>],
     [id |-> "nb-2", displayName |-> NameHome,
      sections |-> << [id |-> "sec-3", displayName |-> NameDiagrams] >>] >>

\* A parameter the tool call does not carry.
Undefined == "undefined"

NoArguments ==
  [type |-> "", pageId |-> "", sectionId |-> "", sectionGroupId |-> "",
   notebookId |-> "", includeContent |-> Undefined,
   includeMetadata |-> Undefined, parentId |-> "", title |-> <<>>,
   content |-> <<>>, description |-> <<>>, notebookName |-> <<>>,
   sectionName |-> <<>>]

NoToolRequest == [name |-> "", arguments |-> NoArguments]

\* The text of an error message or of a result, with the names its
\* template interpolates.
Text(template, notebookName, sectionName) ==
  [template |-> template, notebookName |-> notebookName,
   sectionName |-> sectionName]

NoResponse ==
  [kind |-> "none", isError |-> FALSE, text |-> Text("", <<>>, <<>>),
   id |-> 0, content |-> FALSE, metadata |-> FALSE]

\* No saveDiagram call has been issued, the store holds no page.
NoCall ==
  /\ now = 0
  /\ pc = [p \in Pubs |-> "idle"]
  /\ request = [p \in Pubs |-> NoRequest]
  /\ startedAt = [p \in Pubs |-> 0]
  /\ retryOf = [p \in Pubs |-> 0]
  /\ browser = [p \in Pubs |-> "null"]
  /\ closeCalls = [p \in Pubs |-> 0]
  /\ waitUntil = [p \in Pubs |-> 0]
  /\ outcome = [p \in Pubs |-> NoOutcome]
  /\ newPage = [p \in Pubs |-> NoPage]
  /\ settleAt = [p \in Pubs |-> 0]
  /\ boundary = [p \in Pubs |-> <<>>]
  /\ multipartBuffer = [p \in Pubs |-> <<>>]
  /\ calls = [p \in Pubs |-> <<>>]
  /\ pages = <<>>
  /\ result = [p \in Pubs |-> NoResult]
  /\ logFile = [p \in Pubs |-> <<>>]
  /\ logErrors = [p \in Pubs |-> 0]
  /\ directory = Notebooks

\* No tool call has been received.
NoToolCall ==
  /\ toolPc = [r \in Pubs |-> "idle"]
  /\ toolRequest = [r \in Pubs |-> NoToolRequest]
  /\ toolCalls = [r \in Pubs |-> <<>>]
  /\ response = [r \in Pubs |-> NoResponse]

\* initialize has returned with a token, and logs.txt can be written.
Init ==
  /\ NoCall
  /\ NoToolCall
  /\ logWritable = TRUE
  /\ tokenCache = 1
  /\ initPc = "ready"
  /\ acquisitions = <<"silent">>
  /\ authResult = "token"
  /\ client = "set"
  /\ initError = ""

\* As Init, and logs.txt can be written or cannot.
LogInit ==
  /\ NoCall
  /\ NoToolCall
  /\ logWritable \in BOOLEAN
  /\ tokenCache = 1
  /\ initPc = "ready"
  /\ acquisitions = <<"silent">>
  /\ authResult = "token"
  /\ client = "set"
  /\ initError = ""

(***************************************************************************)
(* generateJpegFromMermaid.                                                *)
(***************************************************************************)
\* saveDiagram is called and calls generateJpegFromMermaid, which awaits
\* the import of puppeteer.
Start(p) ==
  /\ pc[p] = "idle"
  /\ \A q \in Pubs : q < p => pc[q] # "idle"
  /\ \E req \in Requests :
       LET repeated == {q \in Pubs : PatchFailed(q) /\ request[q] = req} IN
         /\ request' = [request EXCEPT ![p] = req]
         /\ retryOf' = [retryOf EXCEPT
                          ![p] = IF repeated = {} THEN 0 ELSE Min(repeated)]
  /\ startedAt' = [startedAt EXCEPT ![p] = now]
  /\ pc' = [pc EXCEPT ![p] = "import"]
  /\ UNCHANGED <<serverVars, logVars, now, browser, closeCalls, waitUntil, outcome, newPage,
                 settleAt, boundary, multipartBuffer, calls, pages, result>>

\* A step inside generateJpegFromMermaid's try block throws: the catch
\* wraps the error and the finally block runs next.
Throw(p, message) ==
  /\ outcome' = [outcome EXCEPT ![p] = ConvertError(message)]
  /\ pc' = [pc EXCEPT ![p] = "finally"]

\* const puppeteer = await import("puppeteer"), outside the try block: a
\* failure reaches saveDiagram's catch as it is.
ImportPuppeteer(p) ==
  /\ pc[p] = "import"
  /\ \/ /\ pc' = [pc EXCEPT ![p] = "launch"]
        /\ UNCHANGED <<outcome, result, logVars>>
     \/ /\ outcome' = [outcome EXCEPT ![p] = RawError(ImportError)]
        /\ result' = [result EXCEPT ![p] = Failure(ImportError)]
        /\ pc' = [pc EXCEPT ![p] = "failed"]
        /\ AppendToLog(p, <<"Error in saveDiagram">>)
  /\ UNCHANGED <<serverVars, now, request, startedAt, retryOf, browser, closeCalls, waitUntil,
                 newPage, settleAt, boundary, multipartBuffer, calls, pages>>

\* browser = await puppeteer.default.launch(...)
Launch(p) ==
  /\ pc[p] = "launch"
  /\ \/ /\ browser' = [browser EXCEPT ![p] = "open"]
        /\ pc' = [pc EXCEPT ![p] = "newPage"]
        /\ AppendToLog(p, <<"generateJpegFromMermaid mermaidCode">>)
        /\ UNCHANGED outcome
     \/ /\ Throw(p, LaunchError)
        /\ UNCHANGED <<browser, logVars>>
  /\ UNCHANGED <<serverVars, now, request, startedAt, retryOf, closeCalls, waitUntil, newPage,
                 settleAt, boundary, multipartBuffer, calls, pages, result>>

\* const page = await browser.newPage()
NewPage(p) ==
  /\ pc[p] = "newPage"
  /\ \/ /\ pc' = [pc EXCEPT ![p] = "setContent"]
        /\ UNCHANGED outcome
     \/ Throw(p, NewPageError)
  /\ UNCHANGED <<serverVars, logVars, now, request, startedAt, retryOf, browser, closeCalls, waitUntil,
                 newPage, settleAt, boundary, multipartBuffer, calls, pages,
                 result>>

\* await page.setContent(html), then the wait for the rendered svg begins.
SetContent(p) ==
  /\ pc[p] = "setContent"
  /\ \/ /\ pc' = [pc EXCEPT ![p] = "waitForFunction"]
        /\ waitUntil' = [waitUntil EXCEPT ![p] = now + RenderTimeout]
        /\ AppendToLog(p, <<"generateJpegFromMermaid HTML Content set">>)
        /\ UNCHANGED outcome
     \/ /\ Throw(p, SetContentError)
        /\ UNCHANGED <<waitUntil, logVars>>
  /\ UNCHANGED <<serverVars, now, request, startedAt, retryOf, browser, closeCalls, newPage,
                 settleAt, boundary, multipartBuffer, calls, pages, result>>

\* A variant of WaitForFunction without the timeout: the wait ends only
\* when the svg has appeared.
WaitForFunctionNoTimeout(p) ==
  /\ pc[p] = "waitForFunction"
  /\ now < waitUntil[p]
  /\ pc' = [pc EXCEPT ![p] = "screenshot"]
  /\ waitUntil' = [waitUntil EXCEPT ![p] = 0]
  /\ UNCHANGED <<serverVars, logVars, now, request, startedAt, retryOf, browser, closeCalls, newPage,
                 settleAt, boundary, multipartBuffer, calls, pages, result,
                 outcome>>

\* await page.waitForFunction('document.querySelector(".mermaid svg")',
\* { timeout: 5000 }): the svg appears before the timeout is due, or the
\* wait fails once it is due.  Either way the timeout is cleared.
WaitForFunction(p) ==
  /\ pc[p] = "waitForFunction"
  /\ \/ /\ now < waitUntil[p]
        /\ pc' = [pc EXCEPT ![p] = "screenshot"]
        /\ UNCHANGED outcome
     \/ /\ now >= waitUntil[p]
        /\ Throw(p, WaitTimeoutError)
  /\ waitUntil' = [waitUntil EXCEPT ![p] = 0]
  /\ UNCHANGED <<serverVars, logVars, now, request, startedAt, retryOf, browser, closeCalls, newPage,
                 settleAt, boundary, multipartBuffer, calls, pages, result>>

\* A variant of Screenshot whose capture may come back without a byte.
ScreenshotPossiblyEmpty(p) ==
  /\ pc[p] = "screenshot"
  /\ \/ \E bytes \in JpegBuffers \cup {<<>>} :
          /\ outcome' = [outcome EXCEPT ![p] = Returned(bytes)]
          /\ pc' = [pc EXCEPT ![p] = "finally"]
     \/ Throw(p, ScreenshotError)
  /\ UNCHANGED <<serverVars, logVars, now, request, startedAt, retryOf, browser, closeCalls, waitUntil,
                 newPage, settleAt, boundary, multipartBuffer, calls, pages,
                 result>>

\* const element = await page.$(".mermaid");
\* return await element!.screenshot({ type: "jpeg", quality: 80 })
Screenshot(p) ==
  /\ pc[p] = "screenshot"
  /\ \/ \E bytes \in JpegBuffers :
          /\ outcome' = [outcome EXCEPT ![p] = Returned(bytes)]
          /\ pc' = [pc EXCEPT ![p] = "finally"]
     \/ Throw(p, ScreenshotError)
  /\ UNCHANGED <<serverVars, logVars, now, request, startedAt, retryOf, browser, closeCalls, waitUntil,
                 newPage, settleAt, boundary, multipartBuffer, calls, pages,
                 result>>

\* What leaves generateJpegFromMermaid after its finally block: the pending
\* value or error, or the error of a close() that failed.
AfterClose(pending, closeOk) ==
  IF closeOk THEN pending ELSE RawError(CloseError)

\* A variant of CloseBrowser that closes the browser on the successful
\* path only, as if close() stood at the end of the try block.
CloseBrowserOnSuccess(p) ==
  IF browser[p] = "open" /\ outcome[p].kind = "value"
    THEN /\ browser' = [browser EXCEPT ![p] = "closed"]
         /\ closeCalls' = [closeCalls EXCEPT ![p] = @ + 1]
    ELSE UNCHANGED <<browser, closeCalls>>

\* A variant of CloseBrowser in which the calls share one browser: closing
\* it closes the browser under every call.
CloseBrowserShared(p) ==
  IF browser[p] = "open"
    THEN /\ browser' = [q \in Pubs |->
                          IF browser[q] = "open" THEN "closed" ELSE browser[q]]
         /\ closeCalls' = [closeCalls EXCEPT ![p] = @ + 1]
    ELSE UNCHANGED <<browser, closeCalls>>

\* A variant of CloseBrowser that starts the close without awaiting it:
\* the browser is still open when generateJpegFromMermaid is left.
CloseBrowserNotAwaited(p) ==
  IF browser[p] = "open"
    THEN /\ closeCalls' = [closeCalls EXCEPT ![p] = @ + 1]
         /\ UNCHANGED browser
    ELSE UNCHANGED <<browser, closeCalls>>

\* if (browser) { await browser.close(); }
CloseBrowser(p) ==
  IF browser[p] = "open"
    THEN /\ browser' = [browser EXCEPT ![p] = "closed"]
         /\ closeCalls' = [closeCalls EXCEPT ![p] = @ + 1]
    ELSE UNCHANGED <<browser, closeCalls>>

\* A variant of Leave in which saveDiagram swallows the error of the
\* render and goes on to post the page.
LeaveSwallowing(p, leaving) ==
  /\ outcome' = [outcome EXCEPT ![p] = leaving]
  /\ pc' = [pc EXCEPT ![p] = "createPage"]
  /\ AppendToLog(p, <<"JPEG generated successfully in memory">>)
  /\ UNCHANGED result

\* A variant of Leave in which appendToLog has no catch block: a write to
\* logs.txt that fails throws into saveDiagram's catch block.
LeaveFailingOnLog(p, leaving) ==
  /\ outcome' = [outcome EXCEPT ![p] = leaving]
  /\ IF leaving.kind = "value" /\ logWritable
       THEN /\ pc' = [pc EXCEPT ![p] = "createPage"]
            /\ AppendToLog(p, <<"JPEG generated successfully in memory">>)
            /\ UNCHANGED result
       ELSE /\ pc' = [pc EXCEPT ![p] = "failed"]
            /\ AppendToLog(p, <<"Error in saveDiagram">>)
            /\ result' =
                 [result EXCEPT
                    ![p] = Failure(IF leaving.kind = "value"
                                     THEN "EACCES: permission denied, open logs.txt"
                                     ELSE leaving.message)]

\* The return to saveDiagram: with a buffer it goes on to post the page,
\* with an error its catch block rethrows.
Leave(p, leaving) ==
  /\ outcome' = [outcome EXCEPT ![p] = leaving]
  /\ IF leaving.kind = "value"
       THEN /\ pc' = [pc EXCEPT ![p] = "createPage"]
            /\ AppendToLog(p, <<"JPEG generated successfully in memory">>)
            /\ UNCHANGED result
       ELSE /\ pc' = [pc EXCEPT ![p] = "failed"]
            /\ AppendToLog(p, <<"Error in saveDiagram">>)
            /\ result' = [result EXCEPT ![p] = Failure(leaving.message)]

\* finally { if (browser) { await browser.close(); } }, and then what
\* was pending leaves generateJpegFromMermaid.
Finally(p) ==
  /\ pc[p] = "finally"
  /\ \E closeOk \in (IF browser[p] = "open" THEN BOOLEAN ELSE {TRUE}) :
       Leave(p, AfterClose(outcome[p], closeOk))
  /\ CloseBrowser(p)
  /\ UNCHANGED <<serverVars, now, request, startedAt, retryOf, waitUntil, newPage,
                 settleAt, boundary, multipartBuffer, calls, pages>>

(***************************************************************************)
(* The store.                                                              *)
(***************************************************************************)
\* POST /me/onenote/sections/{id}/pages: the new page, with the next
\* identifier, the title of the document and no content update yet.
StoreCreate(store, req) ==
  Append(store, [id |-> Len(store) + 1, section |-> req.sectionId,
                 title |-> req.title, html |-> PageHtml(req),
                 updates |-> <<>>])

\* PATCH /me/onenote/pages/{id}/content: the page keeps the content update
\* it accepted.
StorePatch(store, pageId, contentType, body) ==
  [i \in 1..Len(store) |->
     IF store[i].id = pageId
       THEN [store[i] EXCEPT
               !.updates = Append(@, [contentType |-> contentType,
                                      body |-> body])]
       ELSE store[i]]

\* The content of the first part of the given name, as a one-element
\* sequence, or <<>> when the parts hold none.
PartNamed(parts, name) ==
  LET named == SelectSeq(parts, LAMBDA part : part.name = name)
  IN  IF named = <<>> THEN <<>> ELSE <<named[1].content>>

RECURSIVE UpdateImages(_)
\* The images the store takes from a page's content updates: of each, the
\* part named diagramImage, parsed under the boundary its Content-Type
\* header declares.
UpdateImages(updates) ==
  IF updates = <<>> THEN <<>>
  ELSE PartNamed(ParseMultipart(Head(updates).body,
                                BoundaryOf(Head(updates).contentType)),
                 NameDiagramImage)
         \o UpdateImages(Tail(updates))

\* The images a page of the store shows.
PageImages(page) == UpdateImages(page.updates)

(***************************************************************************)
(* saveDiagram.                                                            *)
(***************************************************************************)
\* A variant of PostAccepted that goes on to build the body at once,
\* without the settle wait.
PostAcceptedSkippingWait(p) ==
  /\ calls' = [calls EXCEPT ![p] = Append(@, PostCall(request[p], TRUE))]
  /\ pages' = StoreCreate(pages, request[p])
  /\ newPage' = [newPage EXCEPT
                   ![p] = [id |-> Len(pages) + 1, title |-> request[p].title]]
  /\ pc' = [pc EXCEPT ![p] = "build"]
  /\ AppendToLog(p, <<"Created page with ID">>)
  /\ UNCHANGED <<result, settleAt>>

\* A variant of PostAccepted that looks for a page of the same section and
\* document first and, finding one, takes it instead of posting a new one.
PostAcceptedReusing(p) ==
  LET same == {i \in 1..Len(pages) :
                 /\ pages[i].section = request[p].sectionId
                 /\ pages[i].html = PageHtml(request[p])}
  IN  /\ IF same = {}
           THEN /\ calls' = [calls EXCEPT
                               ![p] = Append(@, PostCall(request[p], TRUE))]
                /\ pages' = StoreCreate(pages, request[p])
                /\ newPage' = [newPage EXCEPT
                                 ![p] = [id |-> Len(pages) + 1,
                                         title |-> request[p].title]]
           ELSE /\ newPage' = [newPage EXCEPT
                                 ![p] = [id |-> pages[Min(same)].id,
                                         title |-> request[p].title]]
                /\ UNCHANGED <<calls, pages>>
      /\ settleAt' = [settleAt EXCEPT ![p] = now + SettleDelay]
      /\ pc' = [pc EXCEPT ![p] = "settle"]
      /\ AppendToLog(p, <<"Created page with ID">>)
      /\ UNCHANGED result

\* The store accepts the POST: newPage is the created page, the creation
\* is logged and the settle timer is set.
PostAccepted(p) ==
  /\ calls' = [calls EXCEPT ![p] = Append(@, PostCall(request[p], TRUE))]
  /\ pages' = StoreCreate(pages, request[p])
  /\ newPage' = [newPage EXCEPT
                   ![p] = [id |-> Len(pages) + 1, title |-> request[p].title]]
  /\ settleAt' = [settleAt EXCEPT ![p] = now + SettleDelay]
  /\ pc' = [pc EXCEPT ![p] = "settle"]
  /\ AppendToLog(p, <<"Created page with ID">>)
  /\ UNCHANGED result

\* A variant of PostRejected in which the error of the POST is swallowed
\* and saveDiagram goes on without a page.
PostRejectedSwallowing(p) ==
  /\ calls' = [calls EXCEPT ![p] = Append(@, PostCall(request[p], FALSE))]
  /\ settleAt' = [settleAt EXCEPT ![p] = now + SettleDelay]
  /\ pc' = [pc EXCEPT ![p] = "settle"]
  /\ UNCHANGED <<pages, newPage, result, logVars>>

\* The store rejects the POST: saveDiagram's catch block rethrows.
PostRejected(p) ==
  \E message \in ClientErrors :
    /\ calls' = [calls EXCEPT ![p] = Append(@, PostCall(request[p], FALSE))]
    /\ result' = [result EXCEPT ![p] = Failure(message)]
    /\ pc' = [pc EXCEPT ![p] = "failed"]
    /\ AppendToLog(p, <<"Error in saveDiagram">>)
    /\ UNCHANGED <<pages, newPage, settleAt>>

\* A variant of CreatePage under a sleep that blocks the process: no POST
\* is sent while any call sleeps through its settle delay.
CreatePageBehindSleep(p) ==
  /\ pc[p] = "createPage"
  /\ \A q \in Pubs : pc[q] # "settle"
  /\ (TokenAcquired /\ PostAccepted(p)) \/ PostRejected(p)
  /\ UNCHANGED <<serverVars, now, request, startedAt, retryOf, browser, closeCalls,
                 waitUntil, outcome, boundary, multipartBuffer>>

\* const newPage = await this.client.api(`/me/onenote/sections/
\* ${sectionId}/pages`).header(...).post(...)
CreatePage(p) ==
  /\ pc[p] = "createPage"
  /\ (TokenAcquired /\ PostAccepted(p)) \/ PostRejected(p)
  /\ UNCHANGED <<serverVars, now, request, startedAt, retryOf, browser, closeCalls,
                 waitUntil, outcome, boundary, multipartBuffer>>

\* A variant of SettleElapsed that does not wait for the timer.
SettleElapsedEarly(p) ==
  /\ pc[p] = "settle"
  /\ settleAt' = [settleAt EXCEPT ![p] = 0]
  /\ pc' = [pc EXCEPT ![p] = "build"]
  /\ UNCHANGED <<serverVars, logVars, now, request, startedAt, retryOf, browser, closeCalls, waitUntil,
                 outcome, newPage, boundary, multipartBuffer, calls, pages,
                 result>>

\* await new Promise(resolve => setTimeout(resolve, 5000)): the timer
\* fires once it is due, and is gone.
SettleElapsed(p) ==
  /\ pc[p] = "settle"
  /\ now >= settleAt[p]
  /\ settleAt' = [settleAt EXCEPT ![p] = 0]
  /\ pc' = [pc EXCEPT ![p] = "build"]
  /\ UNCHANGED <<serverVars, logVars, now, request, startedAt, retryOf, browser, closeCalls, waitUntil,
                 outcome, newPage, boundary, multipartBuffer, calls, pages,
                 result>>

\* const boundary = `PartBoundary${Date.now()}`; ... const multipartBuffer
\* = Buffer.concat([commandsPart, imagePart, jpegBuffer, closingBoundary])
BuildBody(p) ==
  /\ pc[p] = "build"
  /\ boundary' = [boundary EXCEPT ![p] = Boundary(now)]
  /\ multipartBuffer' =
       [multipartBuffer EXCEPT
          ![p] = MultipartBuffer(Boundary(now), request[p].title,
                                 outcome[p].bytes)]
  /\ pc' = [pc EXCEPT ![p] = "patch"]
  /\ AppendToLog(p, <<"Multipart commands part",
                       "Multipart image part headers",
                       "Multipart closing boundary">>)
  /\ UNCHANGED <<serverVars, now, request, startedAt, retryOf, browser, closeCalls, waitUntil,
                 outcome, newPage, settleAt, calls, pages, result>>

\* A variant of PatchRequest that looks up the page to patch again: it
\* takes the page the section got last.
PatchRequestLatestPage(p, ok) ==
  PatchCall(Last(pages).id, ContentTypeHeader(boundary[p]),
            multipartBuffer[p], ok)

\* The PATCH request of the call, as the store answers it.
PatchRequest(p, ok) ==
  PatchCall(newPage[p].id, ContentTypeHeader(boundary[p]),
            multipartBuffer[p], ok)

\* A variant of PatchAccepted that returns the page the store created
\* last, not the page of this call's POST.
PatchAcceptedReturningLatest(p) ==
  /\ calls' = [calls EXCEPT ![p] = Append(@, PatchRequest(p, TRUE))]
  /\ pages' = StorePatch(pages, newPage[p].id,
                         ContentTypeHeader(boundary[p]), multipartBuffer[p])
  /\ result' = [result EXCEPT
                  ![p] = Success([id |-> Last(pages).id,
                                  title |-> Last(pages).title])]
  /\ pc' = [pc EXCEPT ![p] = "done"]
  /\ AppendToLog(p, <<"JPEG image successfully appended to page ID">>)

\* The store accepts the PATCH: return newPage.
PatchAccepted(p) ==
  /\ calls' = [calls EXCEPT ![p] = Append(@, PatchRequest(p, TRUE))]
  /\ pages' = StorePatch(pages, newPage[p].id,
                         ContentTypeHeader(boundary[p]), multipartBuffer[p])
  /\ result' = [result EXCEPT ![p] = Success(newPage[p])]
  /\ pc' = [pc EXCEPT ![p] = "done"]
  /\ AppendToLog(p, <<"JPEG image successfully appended to page ID">>)

\* A variant of PatchRejected that rolls the placeholder page back: it
\* deletes the page before it rethrows.
PatchRejectedRollingBack(p) ==
  \E message \in GraphErrors :
    /\ calls' = [calls EXCEPT
                   ![p] = @ \o <<PatchRequest(p, FALSE),
                                 [method |-> "DELETE", section |-> "",
                                  page |-> newPage[p].id,
                                  contentType |-> <<>>, html |-> <<>>,
                                  body |-> <<>>, ok |-> TRUE]>>]
    /\ pages' = SelectSeq(pages, LAMBDA page : page.id # newPage[p].id)
    /\ result' = [result EXCEPT ![p] = Failure(message)]
    /\ pc' = [pc EXCEPT ![p] = "failed"]
    /\ AppendToLog(p, <<"PATCH request failed", "Error in saveDiagram">>)

\* A variant of PatchRejected that sends the PATCH a second time when the
\* first one was rejected.
PatchRejectedRetrying(p) ==
  IF CallsOf(p, "PATCH") = <<>>
    THEN /\ calls' = [calls EXCEPT ![p] = Append(@, PatchRequest(p, FALSE))]
         /\ AppendToLog(p, <<"PATCH request failed">>)
         /\ UNCHANGED <<pages, result, pc>>
    ELSE \E message \in GraphErrors :
           /\ calls' = [calls EXCEPT
                          ![p] = Append(@, PatchRequest(p, FALSE))]
           /\ result' = [result EXCEPT ![p] = Failure(message)]
           /\ pc' = [pc EXCEPT ![p] = "failed"]
           /\ AppendToLog(p, <<"PATCH request failed",
                                "Error in saveDiagram">>)
           /\ UNCHANGED pages

\* The store rejects the PATCH: the inner catch logs and rethrows, and
\* saveDiagram's catch block rethrows.
PatchRejected(p) ==
  \E message \in ClientErrors :
    /\ calls' = [calls EXCEPT ![p] = Append(@, PatchRequest(p, FALSE))]
    /\ result' = [result EXCEPT ![p] = Failure(message)]
    /\ pc' = [pc EXCEPT ![p] = "failed"]
    /\ AppendToLog(p, <<"PATCH request failed", "Error in saveDiagram">>)
    /\ UNCHANGED pages

\* await this.client.api(contentUrl).header("Content-Type", ...)
\* .patch(multipartBuffer)
Patch(p) ==
  /\ pc[p] = "patch"
  /\ (TokenAcquired /\ PatchAccepted(p)) \/ PatchRejected(p)
  /\ UNCHANGED <<serverVars, now, request, startedAt, retryOf, browser, closeCalls,
                 waitUntil, outcome, newPage, settleAt, boundary,
                 multipartBuffer>>

(***************************************************************************)
(* The clock.                                                              *)
(***************************************************************************)
MaxClock == MaxEpochs * SettleDelay + MaxJitter

\* A settle timer that is set and not yet due.
TimerPending == \E p \in Pubs : settleAt[p] > now

\* The clock advances.  It is followed up to MaxClock, and beyond it for as
\* long as a timer that was set is still to fire.
Tick ==
  /\ \E step \in {1, SettleDelay} :
       /\ now + step <= MaxClock \/ TimerPending
       /\ step = 1 => now % SettleDelay < MaxJitter
       /\ now' = now + step
  /\ UNCHANGED <<serverVars, logVars, pc, request, startedAt, retryOf, browser, closeCalls, waitUntil,
                 outcome, newPage, settleAt, boundary, multipartBuffer,
                 calls, pages, result>>

Next ==
  \/ Tick
  \/ \E p \in Pubs :
       \/ Start(p)
       \/ ImportPuppeteer(p)
       \/ Launch(p)
       \/ NewPage(p)
       \/ SetContent(p)
       \/ WaitForFunction(p)
       \/ Screenshot(p)
       \/ Finally(p)
       \/ CreatePage(p)
       \/ SettleElapsed(p)
       \/ BuildBody(p)
       \/ Patch(p)

Spec == Init /\ [][Next]_vars

\* The saveDiagram calls of a service whose log may not be writable.
LogSpec == LogInit /\ [][Next]_vars

\* The next step of a saveDiagram call that was issued: each awaited
\* operation of the call.
PublishStep(p) ==
  \/ ImportPuppeteer(p)
  \/ Launch(p)
  \/ NewPage(p)
  \/ SetContent(p)
  \/ WaitForFunction(p)
  \/ Screenshot(p)
  \/ Finally(p)
  \/ CreatePage(p)
  \/ SettleElapsed(p)
  \/ BuildBody(p)
  \/ Patch(p)

\* The runs in which the clock goes on and every awaited operation of a
\* call that was issued settles: the collaborator returns or throws, and a
\* timer that is due fires.
FairSpec ==
  /\ Spec
  /\ WF_vars(Tick)
  /\ \A p \in Pubs : WF_vars(PublishStep(p))

(***************************************************************************)
(* Stages of a publish, and what the claims speak about.                   *)
(***************************************************************************)
RenderSteps ==
  {"import", "launch", "newPage", "setContent", "waitForFunction",
   "screenshot", "finally"}

\* The stage of the publish pipeline a saveDiagram call is in.
Stage(p) ==
  CASE pc[p] = "idle" -> "IDLE"
    [] pc[p] \in RenderSteps -> "RENDER"
    [] pc[p] = "createPage" -> "CREATE_PLACEHOLDER"
    [] pc[p] = "settle" -> "SETTLE_WAIT"
    [] pc[p] = "build" -> "BUILD_BODY"
    [] pc[p] = "patch" -> "PATCH"
    [] pc[p] = "done" -> "DONE"
    [] pc[p] = "failed" -> "FAILED"

\* generateJpegFromMermaid has been called and has returned or thrown.
RenderExited(p) == pc[p] \notin RenderSteps \cup {"idle"}

\* The store holds the page of this identifier.
PageExists(pageId) == \E i \in 1..Len(pages) : pages[i].id = pageId

\* The failed outcomes that wrap an error of the Graph client.
GraphFailures == {Failure(message) : message \in GraphErrors}

\* The call ended because the store rejected its POST.
CreateFailed(p) ==
  /\ calls[p] # <<>>
  /\ calls[p][1].method = "POST"
  /\ ~calls[p][1].ok

(***************************************************************************)
(* C1.  The PATCH is never sent, and no multipart body is assembled,       *)
(* unless the POST of the same publish has succeeded before: the first     *)
(* request of the publish is then an accepted POST, and the page it        *)
(* created is in the store.  When the POST fails the publish ends with the *)
(* failure that wraps the store's error, has sent no PATCH and holds no    *)
(* body.                                                                   *)
(***************************************************************************)
C1_NoPatchWithoutPlaceholder ==
  \A p \in Pubs :
    /\ (multipartBuffer[p] # <<>> \/ CallsOf(p, "PATCH") # <<>>) =>
         /\ calls[p] # <<>>
         /\ calls[p][1].method = "POST"
         /\ calls[p][1].ok
         /\ newPage[p].id # 0
         /\ PageExists(newPage[p].id)
    /\ CreateFailed(p) =>
         /\ pc[p] = "failed"
         /\ result[p] \in GraphFailures
         /\ CallsOf(p, "PATCH") = <<>>
         /\ Len(calls[p]) = 1
         /\ multipartBuffer[p] = <<>>

\* A publish whose POST failed, beside a publish that has sent its PATCH.
C1_Witness ==
  \E p, q \in Pubs :
    /\ CreateFailed(p)
    /\ outcome[p].kind = "value"
    /\ CallsOf(q, "PATCH") # <<>>

(***************************************************************************)
(* C2.  When the render fails, by the render-wait timeout or otherwise,    *)
(* the publish sends no POST and no PATCH, creates no page and ends with   *)
(* the failure that wraps the error of the render.                         *)
(***************************************************************************)
C2_RenderFailureStopsPublish ==
  \A p \in Pubs :
    outcome[p].kind = "error" =>
      /\ pc[p] \in {"finally", "failed"}
      /\ calls[p] = <<>>
      /\ newPage[p] = NoPage
      /\ multipartBuffer[p] = <<>>
      /\ pc[p] = "failed" => result[p] = Failure(outcome[p].message)

\* A publish that ended because the render wait timed out.
C2_Witness ==
  \E p \in Pubs :
    /\ pc[p] = "failed"
    /\ outcome[p] = ConvertError(WaitTimeoutError)
    /\ result[p].status = "error"

\* What leaves generateJpegFromMermaid on the exit paths successful
\* capture, render-wait timeout, host-document load failure and launch
\* failure.
ClaimedExitPaths ==
  {Returned(bytes) : bytes \in JpegBuffers}
    \cup {ConvertError(WaitTimeoutError), ConvertError(SetContentError),
          ConvertError(LaunchError)}

(***************************************************************************)
(* C3.  As claimed: on each of the exit paths successful capture,          *)
(* render-wait timeout, host-document load failure and launch failure,     *)
(* generateJpegFromMermaid has called browser.close() exactly once.        *)
(***************************************************************************)
C3_ExactlyOneCloseOnEveryPath ==
  \A p \in Pubs :
    RenderExited(p) /\ outcome[p] \in ClaimedExitPaths => closeCalls[p] = 1

(***************************************************************************)
(* C3, amended.  browser.close() is called exactly once on every exit path *)
(* on which the browser was launched, and not before the finally block;    *)
(* when the launch or the import of puppeteer fails there is no browser    *)
(* and close() is not called.  No browser is left open.                    *)
(***************************************************************************)
C3_OneClosePerLaunchedBrowser ==
  \A p \in Pubs :
    /\ closeCalls[p] <= 1
    /\ ~RenderExited(p) => closeCalls[p] = 0
    /\ RenderExited(p) =>
         \/ browser[p] = "closed" /\ closeCalls[p] = 1
         \/ /\ browser[p] = "null"
            /\ closeCalls[p] = 0
            /\ outcome[p] \in {ConvertError(LaunchError), RawError(ImportError)}

\* One render left by its timeout with its browser closed once, another
\* left by a failed launch with no close.
C3_Witness ==
  \E p, q \in Pubs :
    /\ RenderExited(p)
    /\ outcome[p] = ConvertError(WaitTimeoutError)
    /\ closeCalls[p] = 1
    /\ RenderExited(q)
    /\ outcome[q] = ConvertError(LaunchError)
    /\ closeCalls[q] = 0

StageOrder ==
  {<<"IDLE", "RENDER">>, <<"RENDER", "CREATE_PLACEHOLDER">>,
   <<"CREATE_PLACEHOLDER", "SETTLE_WAIT">>, <<"SETTLE_WAIT", "BUILD_BODY">>,
   <<"BUILD_BODY", "PATCH">>, <<"PATCH", "DONE">>}
    \cup {<<stage, "FAILED">> :
            stage \in {"RENDER", "CREATE_PLACEHOLDER", "SETTLE_WAIT",
                       "BUILD_BODY", "PATCH"}}

StageStep ==
  \A p \in Pubs :
    Stage(p)' # Stage(p) => <<Stage(p), Stage(p)'>> \in StageOrder

StageDone ==
  \A p \in Pubs :
    /\ Stage(p) \in {"CREATE_PLACEHOLDER", "SETTLE_WAIT", "BUILD_BODY",
                     "PATCH", "DONE"} =>
         outcome[p].kind = "value" /\ browser[p] = "closed"
    /\ Stage(p) \in {"SETTLE_WAIT", "BUILD_BODY", "PATCH", "DONE"} =>
         newPage[p].id # 0 /\ CallsOf(p, "POST") # <<>>
    /\ Stage(p) = "SETTLE_WAIT" => settleAt[p] # 0
    /\ Stage(p) \in {"BUILD_BODY", "PATCH", "DONE"} => settleAt[p] = 0
    /\ Stage(p) \in {"IDLE", "RENDER", "CREATE_PLACEHOLDER", "SETTLE_WAIT",
                     "BUILD_BODY"} => multipartBuffer[p] = <<>>
    /\ Stage(p) \in {"PATCH", "DONE"} => multipartBuffer[p] # <<>>
    /\ Stage(p) # "DONE" => \A i \in 1..Len(calls[p]) :
                              calls[p][i].method = "PATCH" => ~calls[p][i].ok
    /\ Stage(p) = "DONE" => Last(calls[p]) = PatchRequest(p, TRUE)

(***************************************************************************)
(* C4.  The stages of a publish follow one another in the order RENDER,    *)
(* CREATE_PLACEHOLDER, SETTLE_WAIT, BUILD_BODY, PATCH, DONE: every step    *)
(* that changes the stage goes to the next stage or to FAILED, and a stage *)
(* is entered only with the work of the stages before it done.             *)
(***************************************************************************)
C4_StagesInOrder == []StageDone /\ [][StageStep]_vars

\* A publish that went through every stage.
C4_Witness == \E p \in Pubs : Stage(p) = "DONE" /\ result[p].status = "ok"

(***************************************************************************)
(* C5.  When the store rejects the PATCH, the publish ends with the        *)
(* failure that wraps the store's error and sends nothing after the        *)
(* rejected PATCH: its requests are the POST and the PATCH, and the page   *)
(* it created is still in the store, with its text and no content update.  *)
(***************************************************************************)
C5_NoRollbackAfterPatchFailure ==
  \A p \in Pubs :
    (\E i \in 1..Len(calls[p]) :
       calls[p][i].method = "PATCH" /\ ~calls[p][i].ok) =>
      /\ pc[p] = "failed"
      /\ result[p] \in GraphFailures
      /\ Len(calls[p]) = 2
      /\ calls[p][1] = PostCall(request[p], TRUE)
      /\ calls[p][2] = PatchRequest(p, FALSE)
      /\ \E i \in 1..Len(pages) :
           /\ pages[i].id = newPage[p].id
           /\ pages[i].html = PageHtml(request[p])
           /\ pages[i].updates = <<>>

\* A publish that ended in a rejected PATCH.
C5_Witness == \E p \in Pubs : PatchFailed(p)

\* The pages the store holds for a request.
PagesFor(req) ==
  {i \in 1..Len(pages) :
     pages[i].section = req.sectionId /\ pages[i].html = PageHtml(req)}

(***************************************************************************)
(* C6.  A publish that repeats the request of a publish whose PATCH had    *)
(* failed never reuses the first page: the first request it sends is a     *)
(* POST, and once that POST is accepted the store holds two pages for the  *)
(* request, the new page has another identifier than the first, the PATCH  *)
(* goes to the new page and the first page stays without image.            *)
(***************************************************************************)
C6_RetryCreatesSecondPage ==
  \A q \in Pubs :
    retryOf[q] # 0 =>
      LET p == retryOf[q] IN
        /\ request[q] = request[p]
        /\ PatchFailed(p)
        /\ pc[q] \in {"settle", "build", "patch", "done"} =>
             newPage[q].id # 0
        /\ calls[q] # <<>> => calls[q][1].method = "POST"
        /\ newPage[q].id # 0 =>
             /\ newPage[q].id # newPage[p].id
             /\ Cardinality(PagesFor(request[q])) >= 2
             /\ PageExists(newPage[p].id) /\ PageExists(newPage[q].id)
             /\ \A i \in 1..Len(calls[q]) :
                  calls[q][i].method = "PATCH" =>
                    calls[q][i].page = newPage[q].id
             /\ \A i \in 1..Len(pages) :
                  pages[i].id = newPage[p].id => pages[i].updates = <<>>

\* The repeated publish has its own page and has patched it.
C6_Witness ==
  \E q \in Pubs :
    /\ retryOf[q] # 0
    /\ pc[q] = "done"
    /\ Len(pages) = 2

(***************************************************************************)
(* C7.  As claimed: two publishes issued at the same clock reading         *)
(* generate different boundary tokens.                                     *)
(***************************************************************************)
C7_SameTickBoundariesDiffer ==
  \A p, q \in Pubs :
    /\ p # q
    /\ startedAt[p] = startedAt[q]
    /\ boundary[p] # <<>>
    /\ boundary[q] # <<>>
    => boundary[p] # boundary[q]

(***************************************************************************)
(* C8.  As claimed: the body of every PATCH, parsed under the boundary its *)
(* Content-Type header declares, has exactly the two parts Commands and   *)
(* diagramImage, and the bytes of diagramImage are the bytes the render    *)
(* returned.                                                               *)
(***************************************************************************)
C8_BodyParsesToCommandsAndImage ==
  \A p \in Pubs :
    \A i \in 1..Len(calls[p]) :
      calls[p][i].method = "PATCH" =>
        LET parts == ParseMultipart(calls[p][i].body,
                                    BoundaryOf(calls[p][i].contentType))
        IN  /\ Len(parts) = 2
            /\ parts[1].name = NameCommands
            /\ parts[2].name = NameDiagramImage
            /\ parts[2].content = outcome[p].bytes

(***************************************************************************)
(* C9.  As claimed: the delimiter of the generated boundary token does not *)
(* occur in the rendered image bytes.                                      *)
(***************************************************************************)
C9_BoundaryNotInImage ==
  \A p \in Pubs :
    boundary[p] # <<>> =>
      ~Occurs(outcome[p].bytes, Delimiter(boundary[p]))

(***************************************************************************)
(* C10.  In every PATCH request the token the Content-Type header declares *)
(* is the token of the three delimiters of the body: the body begins with  *)
(* the delimiter line of the Commands part, holds the delimiter line of    *)
(* the diagramImage part and ends with the closing delimiter, all of the   *)
(* declared token.                                                         *)
(***************************************************************************)
C10_HeaderBoundaryIsBodyBoundary ==
  \A p \in Pubs :
    \A i \in 1..Len(calls[p]) :
      calls[p][i].method = "PATCH" =>
        LET declared == BoundaryOf(calls[p][i].contentType)
            body == calls[p][i].body
        IN  /\ declared # <<>>
            /\ declared = boundary[p]
            /\ StartsWith(body,
                          Dashes \o declared \o CRLF \o CommandsDisposition)
            /\ Occurs(body, CRLF \o Dashes \o declared \o CRLF
                              \o ImageDisposition)
            /\ EndsWith(body, CRLF \o Dashes \o declared \o Dashes \o CRLF)

\* A PATCH has been sent.
C10_Witness == \E p \in Pubs : CallsOf(p, "PATCH") # <<>>

(***************************************************************************)
(* The body as the store's batch-update interface expects it, line by      *)
(* line.                                                                   *)
(***************************************************************************)
\* 'Content-Disposition: form-data; name="Commands"'
CommandsDispositionLine ==
  <<
    67, 111, 110, 116, 101, 110, 116, 45, 68, 105, 115, 112, 111, 115,
    105, 116, 105, 111, 110, 58, 32, 102, 111, 114, 109, 45, 100, 97,
    116, 97, 59, 32, 110, 97, 109, 101, 61, 34, 67, 111, 109, 109, 97,
    110, 100, 115, 34
  >>

\* 'Content-Type: application/json'
JsonContentTypeLine ==
  <<
    67, 111, 110, 116, 101, 110, 116, 45, 84, 121, 112, 101, 58, 32, 97,
    112, 112, 108, 105, 99, 97, 116, 105, 111, 110, 47, 106, 115, 111,
    110
  >>

\* 'Content-Disposition: form-data; name="diagramImage"'
ImageDispositionLine ==
  <<
    67, 111, 110, 116, 101, 110, 116, 45, 68, 105, 115, 112, 111, 115,
    105, 116, 105, 111, 110, 58, 32, 102, 111, 114, 109, 45, 100, 97,
    116, 97, 59, 32, 110, 97, 109, 101, 61, 34, 100, 105, 97, 103, 114,
    97, 109, 73, 109, 97, 103, 101, 34
  >>

\* 'Content-Type: image/jpeg'
JpegContentTypeLine ==
  <<
    67, 111, 110, 116, 101, 110, 116, 45, 84, 121, 112, 101, 58, 32,
    105, 109, 97, 103, 101, 47, 106, 112, 101, 103
  >>

\* 'Content-Transfer-Encoding: binary'
BinaryEncodingLine ==
  <<
    67, 111, 110, 116, 101, 110, 116, 45, 84, 114, 97, 110, 115, 102,
    101, 114, 45, 69, 110, 99, 111, 100, 105, 110, 103, 58, 32, 98, 105,
    110, 97, 114, 121
  >>

\* '[{"target":"body","action":"append","content":"<img src=\\"name:diagramImage\\" alt=\\"Flow\\" data-src-type=\\"image/jpeg\\"/>"}]'
CommandsJsonFlow ==
  <<
    91, 123, 34, 116, 97, 114, 103, 101, 116, 34, 58, 34, 98, 111, 100,
    121, 34, 44, 34, 97, 99, 116, 105, 111, 110, 34, 58, 34, 97, 112,
    112, 101, 110, 100, 34, 44, 34, 99, 111, 110, 116, 101, 110, 116,
    34, 58, 34, 60, 105, 109, 103, 32, 115, 114, 99, 61, 92, 34, 110,
    97, 109, 101, 58, 100, 105, 97, 103, 114, 97, 109, 73, 109, 97, 103,
    101, 92, 34, 32, 97, 108, 116, 61, 92, 34, 70, 108, 111, 119, 92,
    34, 32, 100, 97, 116, 97, 45, 115, 114, 99, 45, 116, 121, 112, 101,
    61, 92, 34, 105, 109, 97, 103, 101, 47, 106, 112, 101, 103, 92, 34,
    47, 62, 34, 125, 93
  >>

\* '[{"target":"body","action":"append","content":"<img src=\\"name:diagramImage\\" alt=\\"\\"\\r\\n--PartBoundary5000\\r\\n\\\\\\" data-src-type=\\"image/jpeg\\"/>"}]'
CommandsJsonTricky ==
  <<
    91, 123, 34, 116, 97, 114, 103, 101, 116, 34, 58, 34, 98, 111, 100,
    121, 34, 44, 34, 97, 99, 116, 105, 111, 110, 34, 58, 34, 97, 112,
    112, 101, 110, 100, 34, 44, 34, 99, 111, 110, 116, 101, 110, 116,
    34, 58, 34, 60, 105, 109, 103, 32, 115, 114, 99, 61, 92, 34, 110,
    97, 109, 101, 58, 100, 105, 97, 103, 114, 97, 109, 73, 109, 97, 103,
    101, 92, 34, 32, 97, 108, 116, 61, 92, 34, 92, 34, 92, 114, 92, 110,
    45, 45, 80, 97, 114, 116, 66, 111, 117, 110, 100, 97, 114, 121, 53,
    48, 48, 48, 92, 114, 92, 110, 92, 92, 92, 34, 32, 100, 97, 116, 97,
    45, 115, 114, 99, 45, 116, 121, 112, 101, 61, 92, 34, 105, 109, 97,
    103, 101, 47, 106, 112, 101, 103, 92, 34, 47, 62, 34, 125, 93
  >>

\* The JSON text of the commands for each title of Requests: an array of
\* one object with target "body", action "append" and, as content, the img
\* element that refers to name:diagramImage.
ExpectedCommandsJson(title) ==
  CASE title = TitleFlow -> CommandsJsonFlow
    [] title = TitleTricky -> CommandsJsonTricky

RECURSIVE Lines(_)
\* Lines of text, each one ended by CRLF.
Lines(lines) ==
  IF lines = <<>> THEN <<>> ELSE Head(lines) \o CRLF \o Lines(Tail(lines))

\* The boundary line ahead of a part.
BoundaryLine(token) == Dashes \o token

\* The body of the expected shape for a token, a title and image bytes.
ExpectedBody(token, title, image) ==
  Lines(<<BoundaryLine(token), CommandsDispositionLine, JsonContentTypeLine,
          <<>>, ExpectedCommandsJson(title)>>)
    \o Lines(<<BoundaryLine(token), ImageDispositionLine, JpegContentTypeLine,
               BinaryEncodingLine, <<>>>>)
    \o image
    \o CRLF \o BoundaryLine(token) \o Dashes \o CRLF

(***************************************************************************)
(* C11.  The multipart body of a publish is exactly, in this order: the    *)
(* Commands part (boundary line, form-data header of name "Commands",      *)
(* application/json header, blank line, the JSON array of one object with  *)
(* target "body", action "append" and the img reference to                 *)
(* name:diagramImage, CRLF), the header of the image part (boundary line,  *)
(* form-data header of name "diagramImage", image/jpeg, binary transfer    *)
(* encoding, blank line), the rendered bytes as they are, and the closing  *)
(* boundary terminator; every line ends in CRLF.  The PATCH sends this     *)
(* body.                                                                   *)
(***************************************************************************)
C11_BodyIsExactConcatenation ==
  \A p \in Pubs :
    /\ multipartBuffer[p] # <<>> =>
         /\ StartsWith(boundary[p], PartBoundaryPrefix)
         /\ multipartBuffer[p] =
              ExpectedBody(boundary[p], request[p].title, outcome[p].bytes)
    /\ \A i \in 1..Len(calls[p]) :
         calls[p][i].method = "PATCH" =>
           calls[p][i].body =
             ExpectedBody(boundary[p], request[p].title, outcome[p].bytes)

\* A body was built for the title that holds quotes, line ends and a
\* backslash, around the image that holds a delimiter line, and was sent.
C11_Witness ==
  \E p \in Pubs :
    /\ CallsOf(p, "PATCH") # <<>>
    /\ request[p].title = TitleTricky
    /\ outcome[p].bytes = JpegColliding

(***************************************************************************)
(* C12.  When the render, the POST and the PATCH of a publish have all     *)
(* succeeded, the publish returns the identifier and the title of the page *)
(* its own POST returned, and it returns them only after the PATCH has     *)
(* succeeded: a successful result is there only once the accepted PATCH is *)
(* the last request of the call, and it names the page that the store      *)
(* created from this call's document and that no other call was given.     *)
(***************************************************************************)
C12_SuccessReturnsPlaceholder ==
  \A p \in Pubs :
    /\ pc[p] = "done" <=> result[p].status = "ok"
    /\ result[p].status = "ok" =>
         /\ outcome[p].kind = "value"
         /\ calls[p] = <<PostCall(request[p], TRUE), PatchRequest(p, TRUE)>>
         /\ result[p] = Success(newPage[p])
         /\ result[p].id # 0
         /\ result[p].title = request[p].title
         /\ \E i \in 1..Len(pages) :
              /\ pages[i].id = result[p].id
              /\ pages[i].title = result[p].title
              /\ pages[i].html = PageHtml(request[p])
              /\ \E u \in 1..Len(pages[i].updates) :
                   pages[i].updates[u].body = multipartBuffer[p]
         /\ \A q \in Pubs \ {p} : newPage[q].id # result[p].id

\* A publish has returned its page after another call had a later page
\* created.
C12_Witness ==
  \E p \in Pubs :
    /\ result[p].status = "ok"
    /\ result[p].id < Len(pages)

\* The stage in which a failed publish failed: the render before any
\* request was sent, the creation when the POST was rejected, the image
\* attachment when the PATCH was rejected.
FailedStage(p) ==
  CASE calls[p] = <<>> -> "RENDER"
    [] CreateFailed(p) -> "CREATE_PLACEHOLDER"
    [] PatchFailed(p) -> "PATCH"
    [] OTHER -> "NONE"

(***************************************************************************)
(* C13.  Every failed publish is reported as one failed outcome that       *)
(* carries the stage it failed in and the message of the cause, so that    *)
(* the outcomes of a failed render, a failed creation and a failed image   *)
(* attachment can be told apart: two publishes that failed in different    *)
(* stages never end with equal outcomes.                                   *)
(***************************************************************************)
C13_FailureKindsDistinguishable ==
  \A p, q \in Pubs :
    /\ pc[p] = "failed" => result[p].status = "error"
    /\ (/\ pc[p] = "failed"
        /\ pc[q] = "failed"
        /\ FailedStage(p) # FailedStage(q)) => result[p] # result[q]

\* The positions of a saveDiagram call, in the order of the code.
PcOrder ==
  <<"idle", "import", "launch", "newPage", "setContent", "waitForFunction",
    "screenshot", "finally", "createPage", "settle", "build", "patch",
    "done", "failed">>

PcRank(position) == CHOOSE i \in 1..Len(PcOrder) : PcOrder[i] = position

\* Every operation of a publish is done at most once.
AtMostOnce ==
  \A p \in Pubs :
    /\ Len(CallsOf(p, "POST")) <= 1
    /\ Len(CallsOf(p, "PATCH")) <= 1
    /\ Len(calls[p]) <= 2
    /\ closeCalls[p] <= 1

\* A step never takes a publish back to an operation it has passed, a
\* failure of a collaborator ends the publish in that step or, inside the
\* render, leads to the finally block and from there to the end, and a
\* publish that has ended stays as it is.
NoStepBack ==
  \A p \in Pubs :
    /\ pc[p]' # pc[p] => PcRank(pc[p]') > PcRank(pc[p])
    /\ (calls[p]' # calls[p] /\ ~Last(calls[p]').ok) => pc[p]' = "failed"
    /\ (outcome[p]' # outcome[p] /\ outcome[p]'.kind = "error") =>
         pc[p]' \in {"finally", "failed"}
    /\ (pc[p] = "finally" /\ outcome[p].kind = "error") =>
         pc[p]' \in {"finally", "failed"}
    /\ pc[p] \in {"done", "failed"} =>
         /\ pc[p]' = pc[p]
         /\ calls[p]' = calls[p]
         /\ result[p]' = result[p]
         /\ outcome[p]' = outcome[p]
         /\ closeCalls[p]' = closeCalls[p]

(***************************************************************************)
(* C14.  There is no automatic retry: within one publish the render, the   *)
(* POST and the PATCH are each done at most once, whatever their outcome,  *)
(* and a failure at any stage is terminal for the publish.                 *)
(***************************************************************************)
C14_NoAutomaticRetry == []AtMostOnce /\ [][NoStepBack]_vars

\* A publish has ended after its one PATCH was rejected, and another
\* publish has ended too.
C14_Witness ==
  \E p \in Pubs :
    /\ PatchFailed(p)
    /\ Len(CallsOf(p, "PATCH")) = 1
    /\ \E q \in Pubs \ {p} : pc[q] \in {"done", "failed"}

\* The requests a call has sent once its page is created and until its
\* PATCH is answered: the accepted POST and nothing else.
OnlyThePost(p) == calls[p] = <<PostCall(request[p], TRUE)>>

\* The number a string of decimal digits stands for.
Number(digits) ==
  LET value[i \in 0..Len(digits)] ==
        IF i = 0 THEN 0 ELSE value[i - 1] * 10 + (digits[i] - 48)
  IN  value[Len(digits)]

\* The clock reading in the boundary token of a call: when its body was
\* built.
BuildTime(p) ==
  Number(SubSeq(boundary[p], Len(PartBoundaryPrefix) + 1, Len(boundary[p])))

\* From the created page to the PATCH: no request in between, and the body
\* is built, and so the PATCH sent, no earlier than the settle delay after
\* the call was issued.
NothingBeforeThePatch ==
  \A p \in Pubs :
    /\ pc[p] \in {"settle", "build", "patch"} => OnlyThePost(p)
    /\ pc[p] = "settle" => settleAt[p] >= startedAt[p] + SettleDelay
    /\ pc[p] \in {"build", "patch"} => now >= startedAt[p] + SettleDelay
    /\ CallsOf(p, "PATCH") # <<>> =>
         /\ calls[p][1] = PostCall(request[p], TRUE)
         /\ Len(calls[p]) = 2
         /\ BuildTime(p) >= startedAt[p] + SettleDelay
         /\ BuildTime(p) <= now

\* The timer is set to the settle delay when the POST is answered, is not
\* changed while it is pending, and the call goes on, to build the body,
\* only when the timer is due; the clock never goes back.
SettleTimerRespected ==
  /\ now' >= now
  /\ \A p \in Pubs :
       /\ (calls[p]' # calls[p] /\ Last(calls[p]').method = "POST"
             /\ Last(calls[p]').ok) =>
            /\ pc[p]' = "settle"
            /\ settleAt[p]' = now + SettleDelay
       /\ (pc[p] = "settle" /\ pc[p]' = "settle") =>
            settleAt[p]' = settleAt[p]
       /\ (pc[p] = "settle" /\ pc[p]' # "settle") =>
            /\ now >= settleAt[p]
            /\ pc[p]' = "build"
       /\ (calls[p]' # calls[p] /\ Last(calls[p]').method = "PATCH") =>
            pc[p] = "patch"

(***************************************************************************)
(* C15.  After the POST has succeeded the PATCH is sent only after the     *)
(* settle delay has fully elapsed, and between the POST and the PATCH the  *)
(* publish sends no request to the store: it neither reads the page nor    *)
(* polls for its readiness.                                                *)
(***************************************************************************)
C15_PatchOnlyAfterSettleDelay ==
  []NothingBeforeThePatch /\ [][SettleTimerRespected]_vars

\* A PATCH was sent with a body built at the earliest clock reading the
\* settle delay allows.
C15_Witness ==
  \E p \in Pubs :
    /\ CallsOf(p, "PATCH") # <<>>
    /\ boundary[p] = Boundary(startedAt[p] + SettleDelay)

\* The page of a call is the page the store created for the call's POST,
\* no two calls have the same page, every PATCH of a call goes to the
\* call's page, and a page holds the update of the call it was created for
\* and no other.
PageIdThreaded ==
  /\ \A p \in Pubs :
       /\ newPage[p].id # 0 <=>
            (calls[p] # <<>> /\ calls[p][1] = PostCall(request[p], TRUE))
       /\ newPage[p].id # 0 =>
            \E i \in 1..Len(pages) :
              /\ pages[i].id = newPage[p].id
              /\ pages[i].html = PageHtml(request[p])
       /\ \A i \in 1..Len(calls[p]) :
            calls[p][i].method = "PATCH" =>
              calls[p][i].page = newPage[p].id
       /\ \A q \in Pubs \ {p} :
            newPage[p].id # 0 => newPage[q].id # newPage[p].id
  /\ \A i \in 1..Len(pages) :
       pages[i].updates # <<>> =>
         \E p \in Pubs :
           /\ newPage[p].id = pages[i].id
           /\ pc[p] = "done"
           /\ pages[i].updates =
                <<[contentType |-> ContentTypeHeader(boundary[p]),
                   body |-> multipartBuffer[p]]>>

\* The identifier a call holds is the one the store gave to the page it
\* created in the step that answered the call's POST, and from then on it
\* is never replaced.
PageIdKept ==
  \A p \in Pubs :
    /\ (calls[p]' # calls[p] /\ Last(calls[p]').method = "POST"
          /\ Last(calls[p]').ok) =>
         /\ Len(pages') = Len(pages) + 1
         /\ newPage[p]'.id = Last(pages').id
    /\ newPage[p].id # 0 => newPage[p]' = newPage[p]
    /\ newPage[p]' # newPage[p] =>
         (calls[p]' # calls[p] /\ Last(calls[p]').method = "POST")

(***************************************************************************)
(* C16.  The PATCH of a publish goes to exactly the page identifier that   *)
(* the POST of the same publish returned; the identifier is not looked up  *)
(* again and not replaced between the creation and the PATCH, also when    *)
(* several publishes are interleaved.                                      *)
(***************************************************************************)
C16_PatchTargetsOwnPage == []PageIdThreaded /\ [][PageIdKept]_vars

\* A publish has sent its PATCH while another publish, whose page is the
\* older one, was still between its POST and its PATCH.
C16_Witness ==
  \E p \in Pubs :
    /\ CallsOf(p, "PATCH") # <<>>
    /\ \E q \in Pubs \ {p} :
         /\ newPage[q].id # 0
         /\ newPage[q].id < newPage[p].id
         /\ pc[q] \in {"settle", "build", "patch"}

\* What one saveDiagram call holds: its arguments, its browser, its
\* timers, the rendered bytes, its page, its boundary and body, the
\* requests it sent and its result.
Local(p) ==
  <<pc[p], request[p], browser[p], closeCalls[p], waitUntil[p], outcome[p],
    newPage[p], settleAt[p], boundary[p], multipartBuffer[p], calls[p],
    result[p]>>

\* The result of a call as what the call itself holds determines it.
OwnResult(p) ==
  CASE pc[p] = "done" -> {Success(newPage[p])}
    [] pc[p] = "failed" /\ calls[p] = <<>> -> {Failure(outcome[p].message)}
    [] pc[p] = "failed" /\ calls[p] # <<>> -> GraphFailures
    [] OTHER -> {NoResult}

\* Each call works with its own browser, its own rendered bytes, its own
\* page and its own body, and ends with the result they determine.
OwnResources ==
  \A p \in Pubs :
    /\ (browser[p] = "closed") <=> (closeCalls[p] = 1)
    /\ multipartBuffer[p] # <<>> =>
         multipartBuffer[p] =
           MultipartBuffer(boundary[p], request[p].title, outcome[p].bytes)
    /\ \A i \in 1..Len(calls[p]) :
         /\ calls[p][i].method = "POST" =>
              calls[p][i].html = PageHtml(request[p])
         /\ calls[p][i].method = "PATCH" =>
              /\ calls[p][i].page = newPage[p].id
              /\ calls[p][i].body = multipartBuffer[p]
    /\ \A q \in Pubs \ {p} :
         newPage[p].id # 0 => newPage[q].id # newPage[p].id
    /\ result[p] \in OwnResult(p)

\* A step changes what at most one call holds, and in the store only the
\* page of the call that takes the step, or it adds a page.
OwnStateOnly ==
  /\ \A p, q \in Pubs :
       (p # q /\ Local(p)' # Local(p)) => Local(q)' = Local(q)
  /\ Len(pages') >= Len(pages)
  /\ \A i \in 1..Len(pages) :
       pages'[i] # pages[i] =>
         \E p \in Pubs :
           /\ Local(p)' # Local(p)
           /\ newPage[p].id = pages[i].id

(***************************************************************************)
(* C17.  Concurrent publishes share no mutable state: under every          *)
(* interleaving each publish uses its own browser, its own rendered bytes, *)
(* its own page identifier and its own body, no step of one publish        *)
(* changes what another publish holds, and the outcome of a publish is the *)
(* one its own render and its own store requests determine, as when it     *)
(* runs alone.                                                             *)
(***************************************************************************)
C17_PublishesShareNoState == []OwnResources /\ [][OwnStateOnly]_vars

\* Two publishes issued at the same clock reading, with different
\* requests and different rendered bytes, have both succeeded.
C17_Witness ==
  \E p, q \in Pubs :
    /\ p # q
    /\ pc[p] = "done"
    /\ pc[q] = "done"
    /\ startedAt[p] = startedAt[q]
    /\ request[p] # request[q]
    /\ outcome[p].bytes # outcome[q].bytes

\* The positions of a call at which an awaited operation of a collaborator
\* is pending.
AwaitingCollaborator == RenderSteps \cup {"createPage", "build", "patch"}

(***************************************************************************)
(* C18.  While one publish is in its settle wait every other publish can   *)
(* still take its next step: a call that awaits a collaborator can go on,  *)
(* a call whose own settle timer is due can go on, and a further call can  *)
(* be issued.  The wait of one publish never blocks another.               *)
(***************************************************************************)
C18_SettleWaitBlocksNoOne ==
  \A p \in Pubs :
    pc[p] = "settle" =>
      /\ \A q \in Pubs \ {p} :
           /\ pc[q] \in AwaitingCollaborator => ENABLED PublishStep(q)
           /\ (pc[q] = "settle" /\ now >= settleAt[q]) =>
                ENABLED SettleElapsed(q)
      /\ (\E q \in Pubs : pc[q] = "idle") => ENABLED (\E q \in Pubs : Start(q))

\* While a publish was in its settle wait, with its timer not yet due,
\* another publish has had its page created and is now waiting too.
C18_Witness ==
  \E p, q \in Pubs :
    /\ p # q
    /\ pc[p] = "settle"
    /\ now < settleAt[p]
    /\ pc[q] = "settle"
    /\ settleAt[q] > settleAt[p]

(***************************************************************************)
(* C19.  Once it is started a publish always eventually reaches DONE or    *)
(* FAILED, given that each awaited operation (the steps of the render, the *)
(* POST, the settle timer, the PATCH) eventually returns or fails: there   *)
(* is no state in which a publish stays forever.  Stated for the runs of   *)
(* FairSpec.                                                               *)
(***************************************************************************)
C19_EveryPublishEnds ==
  \A p \in Pubs : (pc[p] # "idle") ~> (pc[p] \in {"done", "failed"})

\* One publish has ended in DONE, after its settle wait, and another in
\* FAILED, after the timeout of the render wait.
C19_Witness ==
  \E p, q \in Pubs :
    /\ pc[p] = "done"
    /\ pc[q] = "failed"
    /\ outcome[q] = ConvertError(WaitTimeoutError)

\* The markers a JPEG image starts and ends with.
JpegStart == <<255, 216>>

JpegEnd == <<255, 217>>

ClaimedRenderCauses == {LaunchError, SetContentError, WaitTimeoutError}

\* The finally block of a render that failed for one of the three causes
\* is left in this step.
LeavesWithCause(p, cause) ==
  /\ pc[p] = "finally"
  /\ outcome[p] = ConvertError(cause)
  /\ pc'[p] # "finally"

C21_RenderFailureCarriesCause ==
  [][\A p \in Pubs : \A cause \in ClaimedRenderCauses :
       LeavesWithCause(p, cause)
         => /\ outcome'[p] = ConvertError(cause)
            /\ outcome'[p].bytes = <<>>
            /\ pc'[p] = "failed"
            /\ result'[p] = Failure(ConvertError(cause).message)]_vars

(***************************************************************************)
(* C22.  The browser of a render is closed before                          *)
(* generateJpegFromMermaid returns or throws to saveDiagram: a call that   *)
(* has left the render holds no open browser, and a call that stands at    *)
(* the POST or behind it, or has sent a request to the store, holds a      *)
(* browser that was closed.                                                *)
(***************************************************************************)
\* The positions of saveDiagram behind a render that returned a buffer.
AfterRender == {"createPage", "settle", "build", "patch", "done"}

C22_SandboxDestroyedBeforeReturn ==
  \A p \in Pubs :
    /\ RenderExited(p) => browser[p] # "open"
    /\ (pc[p] \in AfterRender \/ calls[p] # <<>>)
         => browser[p] = "closed" /\ closeCalls[p] = 1

\* One call stands at the POST with its browser closed, another has failed
\* on the render-wait timeout with its browser closed.
C22_Witness ==
  \E p, q \in Pubs :
    /\ pc[p] = "createPage"
    /\ browser[p] = "closed"
    /\ pc[q] = "failed"
    /\ outcome[q] = ConvertError(WaitTimeoutError)
    /\ browser[q] = "closed"

(***************************************************************************)
(* C23.  The document saveDiagram posts holds the title of the request,    *)
(* the description when one is given, and the diagram source byte for      *)
(* byte, and it is posted to the pages of the section the request names.   *)
(***************************************************************************)
\* The POST carries the arguments of the call it belongs to.
PostCarries(call, req) ==
  /\ call.section = req.sectionId
  /\ call.contentType = XhtmlContentType
  /\ Occurs(call.html, req.title)
  /\ req.description # <<>> => Occurs(call.html, req.description)
  /\ Occurs(call.html, TextSourceHead \o req.content \o TextSourceTail)

C23_PostedPageCarriesRequest ==
  \A p \in Pubs :
    \A i \in 1..Len(calls[p]) :
      calls[p][i].method = "POST" => PostCarries(calls[p][i], request[p])

\* Both requests were posted: the one without and the one with a
\* description, each under its own section.
C23_Witness ==
  \E p, q \in Pubs :
    /\ CallsOf(p, "POST") # <<>>
    /\ CallsOf(q, "POST") # <<>>
    /\ request[p].description = <<>>
    /\ request[q].description = DescriptionPair
    /\ calls[p][1].section = "sec-1"
    /\ calls[q][1].section = "sec-2"

(***************************************************************************)
(* initialize.                                                             *)
(***************************************************************************)
\* The number of tool calls the server is followed through.
NumRequests == 1

\* The largest number of accounts the token cache holds at the start.
MaxAccounts == 1

ToolSlots == 1..NumRequests

\* The state of every saveDiagram call and of the log.
callVars ==
  <<pc, request, startedAt, retryOf, browser, closeCalls, waitUntil, outcome,
    newPage, settleAt, boundary, multipartBuffer, calls, result, logVars>>

\* The state of the tool handler.
toolVars == <<toolPc, toolRequest, toolCalls, response>>

\* Messages of the errors the MSAL client throws.
GetAccountsError == "Unable to read the token cache"

SilentError == "interaction_required"

DeviceCodeError == "Device code is expired"

\* What an acquisition that does not throw resolves to: the authentication
\* result, or no result.
AcquisitionResults == {"token", "null"}

\* initialize's catch: throw new Error(`Failed to initialize OneNote
\* service: ${error.message}`)
InitFailure(message) == "Failed to initialize OneNote service: " \o message

\* main() has not called initialize yet: no client, and a token cache with
\* or without an account.
ServerInit ==
  /\ NoCall
  /\ NoToolCall
  /\ logWritable \in BOOLEAN
  /\ tokenCache \in 0..MaxAccounts
  /\ initPc = "getAllAccounts"
  /\ acquisitions = <<>>
  /\ authResult = "none"
  /\ client = "null"
  /\ initError = ""

\* An awaited call inside initialize's try block throws: the catch block
\* rethrows.
InitializeThrows(message) ==
  /\ initPc' = "failed"
  /\ initError' = InitFailure(message)
  /\ UNCHANGED <<authResult, client>>

\* this.client = Client.init({ authProvider }); return this
ClientInit(acquired) ==
  /\ authResult' = acquired
  /\ client' = "set"
  /\ initPc' = "ready"
  /\ UNCHANGED initError

\* const accounts = await this.tokenCache.getAllAccounts();
\* if (accounts.length > 0)
GetAllAccounts ==
  /\ initPc = "getAllAccounts"
  /\ \/ /\ initPc' = IF tokenCache > 0 THEN "acquireTokenSilent"
                                       ELSE "acquireTokenByDeviceCode"
        /\ UNCHANGED <<authResult, client, initError>>
     \/ InitializeThrows(GetAccountsError)
  /\ UNCHANGED <<now, pages, callVars, toolVars, logWritable, directory,
                 tokenCache, acquisitions>>

\* authResult = await this.pca.acquireTokenSilent({ scopes, account:
\* accounts[0] }), and its catch, which falls back to the device-code flow.
AcquireTokenSilent ==
  /\ initPc = "acquireTokenSilent"
  /\ acquisitions' = Append(acquisitions, "silent")
  /\ \/ \E acquired \in AcquisitionResults : ClientInit(acquired)
     \/ /\ initPc' = "acquireTokenByDeviceCode"
        /\ UNCHANGED <<authResult, client, initError>>
  /\ UNCHANGED <<now, pages, callVars, toolVars, logWritable, directory,
                 tokenCache>>

\* authResult = await this.pca.acquireTokenByDeviceCode(deviceCodeRequest):
\* a token, which the cache keeps with its account, no result, or an error.
AcquireTokenByDeviceCode ==
  /\ initPc = "acquireTokenByDeviceCode"
  /\ acquisitions' = Append(acquisitions, "deviceCode")
  /\ \/ /\ ClientInit("token")
        /\ tokenCache' = IF tokenCache = 0 THEN 1 ELSE tokenCache
     \/ /\ ClientInit("null")
        /\ UNCHANGED tokenCache
     \/ /\ InitializeThrows(DeviceCodeError)
        /\ UNCHANGED tokenCache
  /\ UNCHANGED <<now, pages, callVars, toolVars, logWritable, directory>>

(***************************************************************************)
(* The tool handler.                                                       *)
(***************************************************************************)
\* if (value), for the values a parameter takes here: a missing parameter,
\* the empty string and false are falsy.
Truthy(value) == value \notin {Undefined, "", "false"}

\* A parameter with a default value: (includeContent: boolean = true).
Default(value, default) == IF value = Undefined THEN default ELSE value

\* A request of the Graph client the handler causes, and whether the store
\* accepted it.
GraphCall(method, resource, id, ok) ==
  [method |-> method, resource |-> resource, id |-> id, ok |-> ok]

\* The requests with the answers of the store: each accepted, or the one
\* at failedAt rejected; a rejected request ends a sequence of awaited
\* requests, while the requests of a Promise.all are all sent.
Answered(requests, failedAt, concurrent) ==
  LET sent == IF failedAt = 0 \/ concurrent THEN requests
              ELSE SubSeq(requests, 1, failedAt)
  IN  [i \in 1..Len(sent) |->
         GraphCall(sent[i].method, sent[i].resource, sent[i].id,
                   IF TokenAcquired THEN i # failedAt ELSE FALSE)]

\* Where the answers to a sequence of requests may fail: nowhere or at one
\* of them; without a token the first request fails.
FailurePoints(requests) ==
  IF requests = <<>> THEN {0}
  ELSE IF TokenAcquired THEN 0..Len(requests) ELSE {1}

\* throw new Error(`Failed to execute tool: ${errorMessage}`)
Thrown(message) ==
  [kind |-> "thrown", isError |-> FALSE,
   text |-> Text("Failed to execute tool: " \o message, <<>>, <<>>),
   id |-> 0, content |-> FALSE, metadata |-> FALSE]

\* throw new Error(`Unsupported tool or operation: ${name}`), rethrown by
\* the handler's catch.
Unsupported(name) == Thrown("Unsupported tool or operation: " \o name)

\* The tool call may be received: initialize has returned, the handler is
\* set, and the slots are taken in order.
Receivable(r) ==
  /\ initPc = "ready"
  /\ toolPc[r] = "idle"
  /\ \A s \in ToolSlots : s < r => toolPc[s] # "idle"

(***************************************************************************)
(* onenote-read.                                                           *)
(***************************************************************************)
ReadArguments ==
  { [NoArguments EXCEPT !.type = "read_content", !.pageId = pageId,
                        !.sectionId = sectionId,
                        !.sectionGroupId = sectionGroupId,
                        !.notebookId = notebookId,
                        !.includeContent = includeContent,
                        !.includeMetadata = includeMetadata] :
      pageId \in {"", "page-1"}, sectionId \in {"", "sec-1"},
      sectionGroupId \in {"", "grp-1"}, notebookId \in {"", "nb-1"},
      includeContent \in {Undefined, "true", "false"},
      includeMetadata \in {Undefined, "true"} }

\* getPage(pageId, includeContent = true): the page, and then its content
\* if (includeContent).
GetPage(pageId, includeContent) ==
  <<GraphCall("GET", "page", pageId, TRUE)>>
    \o (IF Truthy(Default(includeContent, "true"))
          THEN <<GraphCall("GET", "pageContent", pageId, TRUE)>>
          ELSE <<>>)

\* if (pageId) ... else if (sectionId) ... else if (sectionGroupId) ...
\* else if (notebookId) ... else ...: the service method the handler calls
\* and the requests it makes.
ReadPlan(arguments) ==
  IF Truthy(arguments.pageId)
    THEN [operation |-> "getPage",
          requests |-> GetPage(arguments.pageId, arguments.includeContent),
          concurrent |-> FALSE]
  ELSE IF Truthy(arguments.sectionId)
    THEN [operation |-> "getPages",
          requests |-> <<GraphCall("GET", "sectionPages",
                                   arguments.sectionId, TRUE)>>,
          concurrent |-> FALSE]
  ELSE IF Truthy(arguments.sectionGroupId)
    THEN [operation |-> "getSectionsFromGroup",
          requests |-> <<GraphCall("GET", "groupSections",
                                   arguments.sectionGroupId, TRUE)>>,
          concurrent |-> FALSE]
  ELSE IF Truthy(arguments.notebookId)
    THEN [operation |-> "getSections, getSectionGroups",
          requests |-> <<GraphCall("GET", "notebookSections",
                                   arguments.notebookId, TRUE),
                         GraphCall("GET", "notebookSectionGroups",
                                   arguments.notebookId, TRUE)>>,
          concurrent |-> TRUE]
  ELSE [operation |-> "getNotebooks",
        requests |-> <<GraphCall("GET", "notebooks", "", TRUE)>>,
        concurrent |-> FALSE]

\* The result of a read: for a page, result.content if (includeContent)
\* and result.metadata if (includeMetadata); for the others the list.
ReadResult(arguments) ==
  LET page == Truthy(arguments.pageId) IN
  [kind |-> "result", isError |-> FALSE,
   text |-> Text(ReadPlan(arguments).operation, <<>>, <<>>),
   id |-> 0,
   content |-> page /\ Truthy(arguments.includeContent),
   metadata |-> page /\ Truthy(arguments.includeMetadata)]

\* The handler of an onenote-read call, from the request to the response.
CallRead(r) ==
  /\ Receivable(r)
  /\ \E arguments \in ReadArguments :
       LET plan == ReadPlan(arguments) IN
       \E failedAt \in FailurePoints(plan.requests), message \in ClientErrors :
         /\ toolRequest' = [toolRequest EXCEPT
                              ![r] = [name |-> "onenote-read",
                                      arguments |-> arguments]]
         /\ toolCalls' = [toolCalls EXCEPT
                            ![r] = Answered(plan.requests, failedAt,
                                            plan.concurrent)]
         /\ response' = [response EXCEPT
                           ![r] = IF failedAt = 0 THEN ReadResult(arguments)
                                  ELSE Thrown(message)]
  /\ toolPc' = [toolPc EXCEPT ![r] = "responded"]
  /\ UNCHANGED <<now, pages, callVars, logWritable, directory, tokenCache,
                 initPc, acquisitions, authResult, client, initError>>

(***************************************************************************)
(* onenote-create.                                                         *)
(***************************************************************************)
CreateArguments ==
  { [NoArguments EXCEPT !.type = type, !.parentId = parentId,
                        !.title = NameNotes, !.content = MarkupFlow] :
      type \in {"create_page", "create_section", "create_notebook",
                "delete_page"},
      parentId \in {"", "sec-1", "nb-1"} }

\* A variant of CreatePlan that does not look at parentId.
CreatePlanAnyParent(arguments) ==
  IF arguments.type = "create_page"
    THEN <<GraphCall("POST", "sectionPages", arguments.parentId, TRUE)>>
  ELSE IF arguments.type = "create_section"
    THEN <<GraphCall("POST", "notebookSections", arguments.parentId, TRUE)>>
  ELSE IF arguments.type = "create_notebook"
    THEN <<GraphCall("POST", "notebooks", "", TRUE)>>
  ELSE <<>>

\* if (type === "create_page" && parentId) ... else if (type ===
\* "create_section" && parentId) ... else if (type === "create_notebook"):
\* the request the handler makes, or none.
CreatePlan(arguments) ==
  IF arguments.type = "create_page" /\ Truthy(arguments.parentId)
    THEN <<GraphCall("POST", "sectionPages", arguments.parentId, TRUE)>>
  ELSE IF arguments.type = "create_section" /\ Truthy(arguments.parentId)
    THEN <<GraphCall("POST", "notebookSections", arguments.parentId, TRUE)>>
  ELSE IF arguments.type = "create_notebook"
    THEN <<GraphCall("POST", "notebooks", "", TRUE)>>
  ELSE <<>>

\* The store has the parent a POST names: the section of a new page, the
\* notebook of a new section.
ParentExists(call) ==
  CASE call.resource = "sectionPages" ->
         \E i \in 1..Len(directory) :
           \E j \in 1..Len(directory[i].sections) :
             directory[i].sections[j].id = call.id
    [] call.resource = "notebookSections" ->
         \E i \in 1..Len(directory) : directory[i].id = call.id
    [] OTHER -> TRUE

\* The number of sections the store holds.
RECURSIVE SectionCount(_)
SectionCount(notebooks) ==
  IF notebooks = <<>> THEN 0
  ELSE Len(Head(notebooks).sections) + SectionCount(Tail(notebooks))

\* The store after it accepted the POST of a section or of a notebook.
DirectoryCreate(notebooks, call, name) ==
  CASE call.resource = "notebookSections" ->
         [i \in 1..Len(notebooks) |->
            IF notebooks[i].id = call.id
              THEN [notebooks[i] EXCEPT
                      !.sections =
                        Append(@, [id |-> "sec-" \o ToString(
                                            SectionCount(notebooks) + 1),
                                   displayName |-> name])]
              ELSE notebooks[i]]
    [] call.resource = "notebooks" ->
         Append(notebooks,
                [id |-> "nb-" \o ToString(Len(notebooks) + 1),
                 displayName |-> name, sections |-> <<>>])
    [] OTHER -> notebooks

\* The store after it accepted the POST of a page: the document is kept as
\* it was sent.
PagesCreate(store, call, title, htmlContent) ==
  IF call.resource = "sectionPages"
    THEN Append(store, [id |-> Len(store) + 1, section |-> call.id,
                        title |-> title, html |-> htmlContent,
                        updates |-> <<>>])
    ELSE store

\* The result of a create: the identifier and the name of what was made.
CreateResult(arguments) ==
  [kind |-> "result", isError |-> FALSE,
   text |-> Text(arguments.type, <<>>, <<>>),
   id |-> IF arguments.type = "create_page" THEN Len(pages) + 1 ELSE 0,
   content |-> FALSE, metadata |-> FALSE]

\* The handler of an onenote-create call, from the request to the
\* response.
CallCreate(r) ==
  /\ Receivable(r)
  /\ \E arguments \in CreateArguments :
       LET plan == CreatePlan(arguments) IN
       /\ toolRequest' = [toolRequest EXCEPT
                            ![r] = [name |-> "onenote-create",
                                    arguments |-> arguments]]
       /\ IF plan = <<>>
            THEN /\ response' = [response EXCEPT
                                   ![r] = Unsupported("onenote-create")]
                 /\ UNCHANGED <<toolCalls, pages, directory>>
            ELSE \/ /\ TokenAcquired
                    /\ ParentExists(plan[1])
                    /\ toolCalls' = [toolCalls EXCEPT ![r] = plan]
                    /\ pages' = PagesCreate(pages, plan[1], arguments.title,
                                            arguments.content)
                    /\ directory' = DirectoryCreate(directory, plan[1],
                                                    arguments.title)
                    /\ response' = [response EXCEPT
                                      ![r] = CreateResult(arguments)]
                 \/ \E message \in ClientErrors :
                      /\ toolCalls' = [toolCalls EXCEPT
                                         ![r] = Answered(plan, 1, FALSE)]
                      /\ response' = [response EXCEPT
                                        ![r] = Thrown(message)]
                      /\ UNCHANGED <<pages, directory>>
  /\ toolPc' = [toolPc EXCEPT ![r] = "responded"]
  /\ UNCHANGED <<now, callVars, logWritable, tokenCache, initPc,
                 acquisitions, authResult, client, initError>>

(***************************************************************************)
(* onenote-diagram.                                                        *)
(***************************************************************************)
DiagramArguments ==
  { [NoArguments EXCEPT !.type = type, !.notebookName = notebookName,
                        !.sectionName = sectionName,
                        !.title = req.title,
                        !.content = req.content,
                        !.description = req.description] :
      type \in {"save_diagram", "delete_diagram"},
      notebookName \in {NameWork, NameWorkLower, NameHome},
      sectionName \in {NameDiagrams, NameNotes},
      req \in Requests }

\* A variant of Find that compares the names without regard to case, as
\* far as the names of the store go.
FindIgnoringCase(list, displayName) ==
  LET fold(name) == IF name = NameWorkLower THEN NameWork ELSE name
      found == {i \in 1..Len(list) :
                  fold(list[i].displayName) = fold(displayName)}
  IN  IF found = {} THEN 0 ELSE Min(found)

\* list.find(item => item.displayName === displayName): the position of
\* the first item of that name, or 0.
Find(list, displayName) ==
  LET found == {i \in 1..Len(list) : list[i].displayName = displayName}
  IN  IF found = {} THEN 0 ELSE Min(found)

\* new Error(`Notebook "${notebookName}" not found`)
NotebookNotFound(notebookName) ==
  Text("Notebook \"${notebookName}\" not found", notebookName, <<>>)

\* new Error(`Section "${sectionName}" not found in notebook
\* "${notebookName}"`)
SectionNotFound(sectionName, notebookName) ==
  Text("Section \"${sectionName}\" not found in notebook \"${notebookName}\"",
       notebookName, sectionName)

\* The catch of save_diagram: return { ..., text: JSON.stringify({ error,
\* message: "Failed to save diagram to OneNote" }), isError: true }
ErrorResult(text) ==
  [kind |-> "result", isError |-> TRUE, text |-> text, id |-> 0,
   content |-> FALSE, metadata |-> FALSE]

\* return { ..., text: JSON.stringify({ id, title, notebookName,
\* sectionName, message: "Diagram saved successfully to OneNote" }),
\* isError: false }
DiagramResult(saved, arguments) ==
  [kind |-> "result", isError |-> FALSE,
   text |-> Text("Diagram saved successfully to OneNote",
                 arguments.notebookName, arguments.sectionName),
   id |-> saved.id, content |-> FALSE, metadata |-> FALSE]

\* What the lookups of save_diagram come to: the requests they make, and
\* the section they find or the error they end with.
Resolve(arguments, notebooksFail, sectionsFail, message) ==
  LET getNotebooks == GraphCall("GET", "notebooks", "", ~notebooksFail)
      nb == Find(directory, arguments.notebookName)
      getSections ==
        GraphCall("GET", "notebookSections",
                  IF nb = 0 THEN "" ELSE directory[nb].id, ~sectionsFail)
      sec == IF nb = 0 THEN 0
             ELSE Find(directory[nb].sections, arguments.sectionName)
  IN  IF notebooksFail
        THEN [requests |-> <<getNotebooks>>, sectionId |-> "",
              error |-> Text(message, <<>>, <<>>)]
      ELSE IF nb = 0
        THEN [requests |-> <<getNotebooks>>, sectionId |-> "",
              error |-> NotebookNotFound(arguments.notebookName)]
      ELSE IF sectionsFail
        THEN [requests |-> <<getNotebooks, getSections>>, sectionId |-> "",
              error |-> Text(message, <<>>, <<>>)]
      ELSE IF sec = 0
        THEN [requests |-> <<getNotebooks, getSections>>, sectionId |-> "",
              error |-> SectionNotFound(arguments.sectionName,
                                        arguments.notebookName)]
      ELSE [requests |-> <<getNotebooks, getSections>>,
            sectionId |-> directory[nb].sections[sec].id,
            error |-> Text("", <<>>, <<>>)]

\* oneNoteService.saveDiagram(section.id, title, content, description) is
\* called for the tool call, and calls generateJpegFromMermaid.
CallSaveDiagram(r, sectionId, arguments) ==
  LET req == [sectionId |-> sectionId, title |-> arguments.title,
              content |-> arguments.content,
              description |-> arguments.description]
      repeated == {q \in Pubs : PatchFailed(q) /\ request[q] = req}
  IN  /\ request' = [request EXCEPT ![r] = req]
      /\ retryOf' = [retryOf EXCEPT
                       ![r] = IF repeated = {} THEN 0 ELSE Min(repeated)]
      /\ startedAt' = [startedAt EXCEPT ![r] = now]
      /\ pc' = [pc EXCEPT ![r] = "import"]

\* The handler of an onenote-diagram call, up to the call of saveDiagram
\* or to the response that ends it before.
CallDiagram(r) ==
  /\ Receivable(r)
  /\ \E arguments \in DiagramArguments :
       /\ toolRequest' = [toolRequest EXCEPT
                            ![r] = [name |-> "onenote-diagram",
                                    arguments |-> arguments]]
       /\ IF arguments.type # "save_diagram"
            THEN /\ response' = [response EXCEPT
                                   ![r] = Unsupported("onenote-diagram")]
                 /\ toolPc' = [toolPc EXCEPT ![r] = "responded"]
                 /\ UNCHANGED <<toolCalls, pc, request, startedAt, retryOf>>
            ELSE \E notebooksFail, sectionsFail \in
                      (IF TokenAcquired THEN BOOLEAN ELSE {TRUE}),
                    message \in ClientErrors :
                   LET resolved == Resolve(arguments, notebooksFail,
                                           sectionsFail, message)
                   IN  /\ toolCalls' = [toolCalls EXCEPT
                                          ![r] = resolved.requests]
                       /\ IF resolved.sectionId = ""
                            THEN /\ response' =
                                      [response EXCEPT
                                         ![r] = ErrorResult(resolved.error)]
                                 /\ toolPc' = [toolPc EXCEPT
                                                 ![r] = "responded"]
                                 /\ UNCHANGED <<pc, request, startedAt,
                                                retryOf>>
                            ELSE /\ CallSaveDiagram(r, resolved.sectionId,
                                                    arguments)
                                 /\ toolPc' = [toolPc EXCEPT
                                                 ![r] = "saveDiagram"]
                                 /\ UNCHANGED response
  /\ UNCHANGED <<now, pages, browser, closeCalls, waitUntil, outcome,
                 newPage, settleAt, boundary, multipartBuffer, calls, result,
                 logVars, logWritable, directory, tokenCache, initPc,
                 acquisitions, authResult, client, initError>>

\* A variant of ReturnDiagram that reports a failed PATCH as a success of
\* the page that was created.
ReturnDiagramPartial(r) ==
  /\ toolPc[r] = "saveDiagram"
  /\ pc[r] \in {"done", "failed"}
  /\ response' =
       [response EXCEPT
          ![r] = IF result[r].status = "ok"
                   THEN DiagramResult(result[r], toolRequest[r].arguments)
                 ELSE IF PatchFailed(r)
                   THEN DiagramResult(newPage[r], toolRequest[r].arguments)
                 ELSE ErrorResult(Text(result[r].message, <<>>, <<>>))]
  /\ toolPc' = [toolPc EXCEPT ![r] = "responded"]
  /\ UNCHANGED <<now, pages, callVars, logWritable, directory, tokenCache,
                 initPc, acquisitions, authResult, client, initError,
                 toolRequest, toolCalls>>

\* saveDiagram has returned or thrown: the handler returns the result of
\* the success, or its catch returns the error result.
ReturnDiagram(r) ==
  /\ toolPc[r] = "saveDiagram"
  /\ pc[r] \in {"done", "failed"}
  /\ response' =
       [response EXCEPT
          ![r] = IF result[r].status = "ok"
                   THEN DiagramResult(result[r], toolRequest[r].arguments)
                   ELSE ErrorResult(Text(result[r].message, <<>>, <<>>))]
  /\ toolPc' = [toolPc EXCEPT ![r] = "responded"]
  /\ UNCHANGED <<now, pages, callVars, logWritable, directory, tokenCache,
                 initPc, acquisitions, authResult, client, initError,
                 toolRequest, toolCalls>>

\* The names of tools the server does not provide.
UnknownTools == {"onenote-delete"}

\* The handler of a call of a tool it does not know.
CallUnknown(r) ==
  /\ Receivable(r)
  /\ \E name \in UnknownTools :
       /\ toolRequest' = [toolRequest EXCEPT
                            ![r] = [name |-> name, arguments |-> NoArguments]]
       /\ response' = [response EXCEPT ![r] = Unsupported(name)]
  /\ toolPc' = [toolPc EXCEPT ![r] = "responded"]
  /\ UNCHANGED <<now, pages, callVars, logWritable, directory, tokenCache,
                 initPc, acquisitions, authResult, client, initError,
                 toolCalls>>

ServerNext ==
  \/ GetAllAccounts
  \/ AcquireTokenSilent
  \/ AcquireTokenByDeviceCode
  \/ Tick
  \/ \E r \in ToolSlots :
       \/ CallRead(r)
       \/ CallCreate(r)
       \/ CallDiagram(r)
       \/ CallUnknown(r)
       \/ ReturnDiagram(r)
       \/ ImportPuppeteer(r)
       \/ Launch(r)
       \/ NewPage(r)
       \/ SetContent(r)
       \/ WaitForFunction(r)
       \/ Screenshot(r)
       \/ Finally(r)
       \/ CreatePage(r)
       \/ SettleElapsed(r)
       \/ BuildBody(r)
       \/ Patch(r)

\* main(): initialize, and then the tool calls the handler receives.
ServerSpec == ServerInit /\ [][ServerNext]_vars

(***************************************************************************)
(* C24.  Every failure of a save_diagram tool call comes back as an error  *)
(* result: the handler returns, it does not throw, and its result has      *)
(* isError true and an error message exactly when the lookups or           *)
(* saveDiagram failed.  A call whose PATCH was rejected after its page was *)
(* created gets the error result of saveDiagram's message like every other *)
(* failure, without the identifier of the page.                            *)
(***************************************************************************)
\* The tool call is a save_diagram call of onenote-diagram.
DiagramCall(r) ==
  /\ toolRequest[r].name = "onenote-diagram"
  /\ toolRequest[r].arguments.type = "save_diagram"

C24_DiagramFailureIsErrorResult ==
  \A r \in Pubs :
    (DiagramCall(r) /\ toolPc[r] = "responded")
      => /\ response[r].kind = "result"
         /\ response[r].isError = (result[r].status # "ok")
         /\ response[r].isError
              => response[r].text.template # "" /\ response[r].id = 0
         /\ pc[r] = "failed"
              => response[r] = ErrorResult(Text(result[r].message, <<>>, <<>>))

\* The PATCH of a save_diagram call was rejected, its page is in the store
\* without an image, and the handler has returned the error result.
C24_Witness ==
  \E r \in Pubs :
    /\ DiagramCall(r)
    /\ toolPc[r] = "responded"
    /\ PatchFailed(r)
    /\ PageExists(newPage[r].id)
    /\ response[r].isError

(***************************************************************************)
(* C25.  initialize tries the silent acquisition first when the token      *)
(* cache holds an account, and runs the device-code flow only when the     *)
(* cache holds none or the silent acquisition has failed; the Graph client *)
(* is set only after a token was acquired; and a failure ends in the error *)
(* 'Failed to initialize OneNote service: ...' with no client set.         *)
(***************************************************************************)
InitFailures ==
  {InitFailure(message) :
     message \in {GetAccountsError, SilentError, DeviceCodeError}}

C25_TokenBeforeClient ==
  /\ initPc = "acquireTokenSilent" => tokenCache > 0 /\ acquisitions = <<>>
  /\ initPc = "acquireTokenByDeviceCode"
       => \/ tokenCache = 0 /\ acquisitions = <<>>
          \/ acquisitions = <<"silent">>
  /\ acquisitions \in {<<>>, <<"silent">>, <<"deviceCode">>,
                       <<"silent", "deviceCode">>}
  /\ client = "set" => authResult = "token"
  /\ initPc = "failed" => client = "null" /\ initError \in InitFailures
  /\ initPc = "ready" => client = "set"

(***************************************************************************)
(* C26.  save_diagram looks the notebook up by its exact display name and  *)
(* the section by its exact display name among the sections of that        *)
(* notebook before it calls saveDiagram.  When either is missing nothing   *)
(* is rendered, posted or patched and the call ends with an error result;  *)
(* when both are found saveDiagram is called with the identifier of that   *)
(* section and with the title, content and description of the call.        *)
(***************************************************************************)
\* The identifiers of the sections of this name in the notebooks of this
\* name.
SectionsNamed(notebookName, sectionName) ==
  UNION { {directory[i].sections[j].id :
             j \in {k \in 1..Len(directory[i].sections) :
                      directory[i].sections[k].displayName = sectionName}} :
          i \in {n \in 1..Len(directory) :
                   directory[n].displayName = notebookName} }

\* saveDiagram was not called for the tool call.
NotPublished(r) ==
  /\ pc[r] = "idle"
  /\ browser[r] = "null"
  /\ calls[r] = <<>>
  /\ request[r] = NoRequest

C26_SectionResolvedBeforePublish ==
  \A r \in Pubs :
    (DiagramCall(r) /\ toolPc[r] # "idle")
      => LET arguments == toolRequest[r].arguments
             named == SectionsNamed(arguments.notebookName,
                                    arguments.sectionName)
         IN  /\ named = {}
                  => /\ NotPublished(r)
                     /\ toolPc[r] = "responded"
                     /\ response[r].isError
             /\ ~NotPublished(r)
                  => /\ request[r].sectionId \in named
                     /\ request[r].title = arguments.title
                     /\ request[r].content = arguments.content
                     /\ request[r].description = arguments.description
                     /\ Len(toolCalls[r]) = 2
                     /\ \A i \in 1..2 : toolCalls[r][i].ok
                     /\ \A i \in 1..Len(calls[r]) :
                          calls[r][i].method = "POST"
                            => calls[r][i].section = request[r].sectionId

\* The section exists in another notebook but not in the one the call
\* names: the call ended with the error result and nothing was published.
C26_Witness ==
  \E r \in Pubs :
    /\ DiagramCall(r)
    /\ toolRequest[r].arguments.notebookName = NameHome
    /\ toolRequest[r].arguments.sectionName = NameNotes
    /\ toolPc[r] = "responded"
    /\ response[r] = ErrorResult(SectionNotFound(NameNotes, NameHome))
    /\ NotPublished(r)
    /\ pages = <<>>

(***************************************************************************)
(* C27.  onenote-read makes exactly one read, chosen by the narrowest      *)
(* parameter the call carries: the page of pageId, else the pages of       *)
(* sectionId, else the sections of sectionGroupId, else the sections and   *)
(* section groups of notebookId, else all notebooks; the parameters behind *)
(* the chosen one are not looked at.  The content of a page is requested   *)
(* from the store only when includeContent is truthy.                      *)
(***************************************************************************)
\* The tool call is an onenote-read call the handler has answered.
ReadCall(r) ==
  /\ toolRequest[r].name = "onenote-read"
  /\ toolPc[r] = "responded"

\* The resources the handler has requested from the store.
Requested(r) == {toolCalls[r][i].resource : i \in 1..Len(toolCalls[r])}

\* The resources and the identifier the read of the claimed priority asks
\* the store for.
ClaimedRead(arguments) ==
  IF arguments.pageId # ""
    THEN [resources |-> {"page", "pageContent"}, id |-> arguments.pageId]
  ELSE IF arguments.sectionId # ""
    THEN [resources |-> {"sectionPages"}, id |-> arguments.sectionId]
  ELSE IF arguments.sectionGroupId # ""
    THEN [resources |-> {"groupSections"}, id |-> arguments.sectionGroupId]
  ELSE IF arguments.notebookId # ""
    THEN [resources |-> {"notebookSections", "notebookSectionGroups"},
          id |-> arguments.notebookId]
  ELSE [resources |-> {"notebooks"}, id |-> ""]

C27_ReadPicksOneOperationByPriority ==
  \A r \in Pubs :
    ReadCall(r)
      => LET arguments == toolRequest[r].arguments IN
         /\ toolCalls[r] # <<>>
         /\ Requested(r) \subseteq ClaimedRead(arguments).resources
         /\ \A i \in 1..Len(toolCalls[r]) :
              toolCalls[r][i].id = ClaimedRead(arguments).id
         /\ "pageContent" \in Requested(r)
              => arguments.includeContent = "true"

(***************************************************************************)
(* C28.  onenote-create sends at most one request to the store: the POST   *)
(* of a page or of a section only when the call carries a parentId, the    *)
(* POST of a notebook with or without one.  Every other call, a page or a  *)
(* section without parentId, an unknown type, or an unknown tool, sends    *)
(* nothing and fails with 'Failed to execute tool: Unsupported tool or     *)
(* operation: <name>', <name> being the name of the tool.                  *)
(***************************************************************************)
\* The request the claim allows the call: the resource and the parent, or
\* none.
ClaimedCreate(arguments) ==
  CASE arguments.type = "create_page" /\ arguments.parentId # ""
         -> <<[resource |-> "sectionPages", id |-> arguments.parentId]>>
    [] arguments.type = "create_section" /\ arguments.parentId # ""
         -> <<[resource |-> "notebookSections", id |-> arguments.parentId]>>
    [] arguments.type = "create_notebook"
         -> <<[resource |-> "notebooks", id |-> ""]>>
    [] OTHER -> <<>>

\* The error of a call the handler does not support.
UnsupportedText(name) ==
  Text("Failed to execute tool: Unsupported tool or operation: " \o name,
       <<>>, <<>>)

\* What the handler has sent and answered, for each answered call.
CreateAnswered ==
  \A r \in Pubs :
    toolPc[r] = "responded"
      => LET name == toolRequest[r].name
             claimed == ClaimedCreate(toolRequest[r].arguments)
         IN  /\ name = "onenote-create"
                  => /\ Len(toolCalls[r]) <= 1
                     /\ Len(toolCalls[r]) = Len(claimed)
                     /\ claimed # <<>>
                          => /\ toolCalls[r][1].method = "POST"
                             /\ toolCalls[r][1].resource = claimed[1].resource
                             /\ toolCalls[r][1].id = claimed[1].id
                     /\ claimed = <<>>
                          => /\ response[r].kind = "thrown"
                             /\ response[r].text = UnsupportedText(name)
             /\ name \in UnknownTools
                  => /\ toolCalls[r] = <<>>
                     /\ response[r].kind = "thrown"
                     /\ response[r].text = UnsupportedText(name)

\* The step in which the handler answers a call that sends nothing leaves
\* the store as it is, and no step of a handler adds more than one page,
\* section or notebook.
CreateStep ==
  \A r \in Pubs :
    (toolPc[r] = "idle" /\ toolPc'[r] = "responded")
      => /\ toolCalls'[r] = <<>> => UNCHANGED <<pages, directory>>
         /\ Len(pages') + Len(directory') + SectionCount(directory')
              <= Len(pages) + Len(directory) + SectionCount(directory) + 1

C28_CreateSendsAtMostOneRequest == []CreateAnswered /\ [][CreateStep]_vars

\* A create_page call without parentId was answered with the error, and
\* nothing was sent to the store.
C28_Witness ==
  \E r \in Pubs :
    /\ toolPc[r] = "responded"
    /\ toolRequest[r].name = "onenote-create"
    /\ toolRequest[r].arguments.type = "create_page"
    /\ toolRequest[r].arguments.parentId = ""
    /\ toolCalls[r] = <<>>
    /\ response[r].text = UnsupportedText("onenote-create")
    /\ pages = <<>>

(***************************************************************************)
(* C29.  A write to logs.txt that fails is swallowed by appendToLog: with  *)
(* or without a writable log, the position, the requests and the result of *)
(* a saveDiagram call follow from the answers of the renderer and of the   *)
(* store alone, and the call attempts the same log entries.  A render that *)
(* returned a buffer is followed by the POST; a call fails only with the   *)
(* message of the render's error or after the store rejected its last      *)
(* request; a call that is done has sent the accepted POST and PATCH.      *)
(***************************************************************************)
\* The log entries the call has attempted: written, or failed and
\* swallowed.
Attempted(p) == Len(logFile[p]) + logErrors[p]

\* The result and the requests are those the answers of the collaborators
\* give.
AnswersDecide(p) ==
  /\ (RenderExited(p) /\ outcome[p].kind = "value")
       => pc[p] = "createPage" \/ calls[p] # <<>>
  /\ pc[p] = "failed"
       => IF outcome[p].kind = "error"
            THEN result[p] = Failure(outcome[p].message) /\ calls[p] = <<>>
            ELSE ~Last(calls[p]).ok /\ result[p] \in GraphFailures
  /\ pc[p] = "done"
       => /\ Len(calls[p]) = 2
          /\ calls[p][1].method = "POST" /\ calls[p][1].ok
          /\ calls[p][2].method = "PATCH" /\ calls[p][2].ok
          /\ result[p] = Success(newPage[p])

\* Every entry is written when the log is writable, none when it is not,
\* and a call that is done has attempted its eight entries either way.
LogSwallowed(p) ==
  /\ logWritable => logErrors[p] = 0
  /\ ~logWritable => logFile[p] = <<>>
  /\ pc[p] = "done" => Attempted(p) = 8
  /\ PatchFailed(p) => Attempted(p) = 9

C29_LoggingNeverChangesOutcome ==
  \A p \in Pubs : AnswersDecide(p) /\ LogSwallowed(p)

\* With a log that cannot be written, one call is done after eight failed
\* writes and another has failed on its PATCH after nine.
C29_Witness ==
  /\ ~logWritable
  /\ \E p, q \in Pubs :
       /\ pc[p] = "done"
       /\ logErrors[p] = 8
       /\ result[p].status = "ok"
       /\ PatchFailed(q)
       /\ logErrors[q] = 9
====
